---- MODULE Spec2Model ----
(***************************************************************************)
(* Sequential tool-calling orchestration of the course-materials RAG       *)
(* backend: backend/ai_generator.py (RoundState, SequentialMessageChain,   *)
(* AIGenerator) and backend/search_tools.py (CourseSearchTool,             *)
(* CourseOutlineTool, ToolManager).                                        *)
(*                                                                         *)
(* Conventions of the translation                                          *)
(*   - Python None is the empty tuple, a present value v is <<v>>.         *)
(*   - A Python list is a sequence, a dict with fixed keys a record.       *)
(*   - time.time() stamps of tool and error records are left out: no       *)
(*     code path reads them.                                               *)
(*   - The language model, the vector store and the lesson-link lookup are *)
(*     collaborators: each call's outcome is chosen from a small set.      *)
(***************************************************************************)
EXTENDS Integers, Sequences, FiniteSets, TLC

VARIABLES
    pc,             \* position inside generate_response_sequential
    tools,          \* the `tools` argument: the tool schema list offered
    tool_manager,   \* the ToolManager: registry and the search tool's buffer
    message_chain,  \* the query's SequentialMessageChain (with its RoundState)
    round_num,      \* loop variable of `for round_num in range(1, 3)`
    response,       \* the response of the current round's model call
    blk,            \* index of the next content block of _execute_tools_for_round
    tool_results,   \* local list of _execute_tools_for_round
    round_sources,  \* local list of _execute_tools_for_round
    api_calls,      \* every client.messages.create call: parameters and outcome
    tool_calls,     \* every tool_manager.execute_tool call: name, arguments, round
    handler,        \* which except clause produced the result, if any
    outcome,        \* "running", "returned" or "raised" (exception left the call)
    result,         \* the returned text
    round_state,    \* a RoundState driven directly, operation by operation
    queries,        \* the source list each finished query handed to its caller
    last_call,      \* the latest call made on a ToolManager driven directly
    heap,           \* the list objects of interleaved queries, by address
    inflight,       \* each interleaved query's locals and object references
    turn            \* the interleaved query that took the latest step

vars == <<pc, tools, tool_manager, message_chain, round_num, response, blk,
          tool_results, round_sources, api_calls, tool_calls, handler,
          outcome, result, round_state, queries, last_call, heap, inflight, turn>>

(***************************************************************************)
(* Bounds of the model and constants of the program                        *)
(***************************************************************************)
\* Most content blocks in one model response.
MaxBlocks == 2
\* Most operations of one RoundState exploration.
MaxOps == 4
\* Most sources in one add_sources batch.
MaxBatch == 2
\* Most queries processed on one ToolManager.
MaxQueries == 2

\* SequentialMessageChain(system_content, max_rounds=2)
max_rounds == 2
\* for round_num in range(1, 3): the first and the last value of the loop
FirstRound == 1
LastRound == 2

None == <<>>
Some(v) == <<v>>

SYSTEM_PROMPT == "SYSTEM_PROMPT"

(***************************************************************************)
(* RoundState                                                              *)
(***************************************************************************)
RoundState ==
    [round_number |-> 0,
     total_tools_executed |-> 0,
     tools_per_round |-> <<>>,
     errors_encountered |-> <<>>,
     sources_accumulated |-> <<>>]

advance_round_no_bucket(rs) == [rs EXCEPT !.round_number = @ + 1]

advance_round(rs) ==
    [rs EXCEPT !.round_number = @ + 1,
               !.tools_per_round = Append(@, <<>>)]

add_tool_execution_no_count(rs, tool_name, tool_result, success) ==
    LET buckets == IF Len(rs.tools_per_round) = 0 THEN << <<>> >>
                   ELSE rs.tools_per_round
        rec == [tool |-> tool_name,
                result_length |-> Len(tool_result),
                success |-> success]
    IN  [rs EXCEPT !.tools_per_round =
                       [buckets EXCEPT ![Len(buckets)] = Append(@, rec)],
                   !.total_tools_executed =
                       IF success THEN @ + 1 ELSE @]

add_tool_execution(rs, tool_name, tool_result, success) ==
    LET buckets == IF Len(rs.tools_per_round) = 0 THEN << <<>> >>
                   ELSE rs.tools_per_round
        rec == [tool |-> tool_name,
                result_length |-> Len(tool_result),
                success |-> success]
    IN  [rs EXCEPT !.tools_per_round =
                       [buckets EXCEPT ![Len(buckets)] = Append(@, rec)],
                   !.total_tools_executed = @ + 1]

add_error_previous_round(rs, error, rnd) ==
    [rs EXCEPT !.errors_encountered =
                   Append(@, [round |-> rnd - 1, error |-> error])]

add_error(rs, error, rnd) ==
    [rs EXCEPT !.errors_encountered =
                   Append(@, [round |-> rnd, error |-> error])]

\* str() of a lesson number inside the f-string of the deduplication key
FormatValue(v) == IF v = None THEN "None" ELSE ToString(v[1])

dedup_key_no_separator(s) ==
    (IF "course_title" \in DOMAIN s THEN s.course_title ELSE "")
        \o
    (IF "lesson_number" \in DOMAIN s THEN FormatValue(s.lesson_number) ELSE "")

\* f"{s.get('course_title', '')}_{s.get('lesson_number', '')}"
dedup_key(s) ==
    (IF "course_title" \in DOMAIN s THEN s.course_title ELSE "")
        \o "_" \o
    (IF "lesson_number" \in DOMAIN s THEN FormatValue(s.lesson_number) ELSE "")

RECURSIVE add_sources_from(_, _, _, _, _)
add_sources_from(acc, keys, sources, i, rnd) ==
    IF i > Len(sources) THEN acc
    ELSE LET source == sources[i]
             key == dedup_key(source)
         IN  IF key \in keys
             THEN add_sources_from(acc, keys, sources, i + 1, rnd)
             ELSE add_sources_from(
                      Append(acc, ("discovered_in_round" :> rnd) @@ source),
                      keys \cup {key}, sources, i + 1, rnd)

add_sources_ignores_accumulated(rs, sources, rnd) ==
    [rs EXCEPT !.sources_accumulated =
                   add_sources_from(@, {}, sources, 1, rnd)]

add_sources_last_wins(rs, sources, rnd) ==
    LET batch_keys == {dedup_key(sources[k]) : k \in 1..Len(sources)}
        kept == SelectSeq(rs.sources_accumulated,
                          LAMBDA s : dedup_key(s) \notin batch_keys)
        kept_keys == {dedup_key(kept[k]) : k \in 1..Len(kept)}
    IN  [rs EXCEPT !.sources_accumulated =
                       add_sources_from(kept, kept_keys, sources, 1, rnd)]

add_sources(rs, sources, rnd) ==
    LET dedup_keys == {dedup_key(rs.sources_accumulated[k]) :
                          k \in 1..Len(rs.sources_accumulated)}
    IN  [rs EXCEPT !.sources_accumulated =
                       add_sources_from(@, dedup_keys, sources, 1, rnd)]

(***************************************************************************)
(* SequentialMessageChain                                                  *)
(***************************************************************************)
SequentialMessageChain(system_prompt, maxr) ==
    [messages |-> <<>>,
     system_prompt |-> system_prompt,
     max_rounds |-> maxr,
     round_state |-> RoundState]

add_user_message(mc, content) ==
    [mc EXCEPT !.messages = Append(@, [role |-> "user", content |-> content])]

add_assistant_message(mc, content) ==
    [mc EXCEPT !.messages =
                   Append(@, [role |-> "assistant", content |-> content])]

add_tool_results(mc, results) ==
    IF Len(results) > 0
    THEN [mc EXCEPT !.messages =
                        Append(@, [role |-> "user", content |-> results])]
    ELSE mc

get_messages(mc) == mc.messages

should_continue_rounds(mc) == mc.round_state.round_number < mc.max_rounds

chain_advance_round_not_yet(mc) == mc

chain_advance_round(mc) ==
    [mc EXCEPT !.round_state = advance_round(@)]

get_accumulated_sources(mc) == mc.round_state.sources_accumulated

(***************************************************************************)
(* search_tools.py: the collaborators' outcomes                            *)
(*                                                                         *)
(* A store outcome says what the vector store does during one tool call:   *)
(*   kind "results"       search returns `matches` (documents and metadata)*)
(*        "empty"         search returns no match                          *)
(*        "error"         search returns SearchResults with `error` set    *)
(*        "raise"         search (or the course-name resolver) raises      *)
(*        "outline"       the resolver finds `course`, present in metadata *)
(*        "unresolved"    the resolver finds no course                     *)
(*        "no_metadata"   the resolved course is missing from the metadata *)
(* link / link_raises: what get_lesson_link returns, or that it raises.    *)
(***************************************************************************)
StoreOutcome(kind, matches, error, link, link_raises, course) ==
    [kind |-> kind, matches |-> matches, error |-> error, link |-> link,
     link_raises |-> link_raises, course |-> course]

NoCourse == [title |-> None, instructor |-> None, course_link |-> None,
             lessons |-> <<>>]

\* The keyword arguments a tool_use block supplies; None: not supplied.
Kwargs(query, course_name, lesson_number, course_title) ==
    [query |-> query, course_name |-> course_name,
     lesson_number |-> lesson_number, course_title |-> course_title]

\* What a tool's execute hands back to its caller.
Returned(tool, text) == [tool |-> tool, raised |-> FALSE, value |-> text]
Raised(tool, message) == [tool |-> tool, raised |-> TRUE, value |-> message]

(***************************************************************************)
(* CourseSearchTool                                                        *)
(***************************************************************************)
CourseSearchTool(name) == [name |-> name, kind |-> "search", last_sources |-> <<>>]

\* meta.get('course_title', 'unknown')
MetaTitle(meta) == IF meta.course_title = None THEN "unknown"
                   ELSE meta.course_title[1]

Header(meta) ==
    "[" \o MetaTitle(meta)
        \o (IF meta.lesson_number # None
            THEN " - Lesson " \o ToString(meta.lesson_number[1]) ELSE "")
        \o "]"

SourceData(meta, env) ==
    [course_title |-> MetaTitle(meta),
     lesson_number |-> meta.lesson_number,
     lesson_link |-> IF meta.lesson_number # None THEN env.link ELSE None]

RECURSIVE JoinWith(_, _)
JoinWith(parts, sep) ==
    IF Len(parts) = 0 THEN ""
    ELSE IF Len(parts) = 1 THEN parts[1]
    ELSE parts[1] \o sep \o JoinWith(Tail(parts), sep)

\* True when the loop of _format_results calls get_lesson_link at all.
LooksUpLink(matches) ==
    \E i \in 1..Len(matches) : matches[i].meta.lesson_number # None

format_results_appends(tool, env) ==
    IF env.link_raises /\ LooksUpLink(env.matches)
    THEN Raised(tool, "link lookup failed")
    ELSE LET n == Len(env.matches)
             sources == [i \in 1..n |-> SourceData(env.matches[i].meta, env)]
             formatted == [i \in 1..n |->
                              Header(env.matches[i].meta) \o "\n"
                                  \o env.matches[i].doc]
         IN  Returned([tool EXCEPT !.last_sources = @ \o sources],
                      JoinWith(formatted, "\n\n"))

format_results(tool, env) ==
    IF env.link_raises /\ LooksUpLink(env.matches)
    THEN Raised(tool, "link lookup failed")
    ELSE LET n == Len(env.matches)
             sources == [i \in 1..n |-> SourceData(env.matches[i].meta, env)]
             formatted == [i \in 1..n |->
                              Header(env.matches[i].meta) \o "\n"
                                  \o env.matches[i].doc]
         IN  Returned([tool EXCEPT !.last_sources = sources],
                      JoinWith(formatted, "\n\n"))

\* Python truth value of an optional string / an optional integer
TruthyStr(v) == v # None /\ v[1] # ""
TruthyInt(v) == v # None /\ v[1] # 0

CourseSearchTool_execute_propagates(tool, kwargs, env) ==
    IF env.kind = "raise"
    THEN Raised(tool, env.error)
    ELSE IF env.kind = "error" /\ env.error # ""
    THEN Returned(tool, env.error)
    ELSE IF env.kind = "empty" \/ Len(env.matches) = 0
    THEN Returned(tool,
            "No relevant content found"
              \o (IF TruthyStr(kwargs.course_name)
                  THEN " in course '" \o kwargs.course_name[1] \o "'" ELSE "")
              \o (IF TruthyInt(kwargs.lesson_number)
                  THEN " in lesson " \o ToString(kwargs.lesson_number[1])
                  ELSE "")
              \o ".")
    ELSE format_results(tool, env)

\* `if results.error:` holds for a non-empty error string.
CourseSearchTool_execute(tool, kwargs, env) ==
    IF env.kind = "raise"
    THEN Returned(tool, "Tool execution failed: " \o env.error)
    ELSE IF env.kind = "error" /\ env.error # ""
    THEN Returned(tool, env.error)
    ELSE IF env.kind = "empty" \/ Len(env.matches) = 0
    THEN Returned(tool,
            "No relevant content found"
              \o (IF TruthyStr(kwargs.course_name)
                  THEN " in course '" \o kwargs.course_name[1] \o "'" ELSE "")
              \o (IF TruthyInt(kwargs.lesson_number)
                  THEN " in lesson " \o ToString(kwargs.lesson_number[1])
                  ELSE "")
              \o ".")
    ELSE LET r == format_results(tool, env)
         IN  IF r.raised
             THEN Returned(tool, "Tool execution failed: " \o r.value)
             ELSE r

(***************************************************************************)
(* CourseOutlineTool                                                       *)
(***************************************************************************)
CourseOutlineTool(name) == [name |-> name, kind |-> "outline", last_sources |-> <<>>]

OrDefault(v, default) == IF v = None THEN default ELSE v[1]

LessonLine(lesson) ==
    "**Lesson " \o ToString(lesson.lesson_number) \o ":** " \o lesson.lesson_title
        \o (IF TruthyStr(lesson.lesson_link)
            THEN " -> [View Lesson](" \o lesson.lesson_link[1] \o ")" ELSE "")

RECURSIVE LessonLines(_)
LessonLines(lessons) ==
    IF Len(lessons) = 0 THEN <<>>
    ELSE <<LessonLine(lessons[1]), "">> \o LessonLines(Tail(lessons))

format_course_outline(course) ==
    LET lessons == SortSeq(course.lessons,
                           LAMBDA a, b : a.lesson_number < b.lesson_number)
    IN  JoinWith(
          << "**Course Title:** " \o OrDefault(course.title, "Unknown Course"), "",
             "**Instructor:** "
                 \o OrDefault(course.instructor, "Unknown Instructor"), "",
             "**Course Link:** "
                 \o OrDefault(course.course_link, "No link available"), "",
             "**Total Lessons:** " \o ToString(Len(lessons)), "",
             "## Course Outline", "" >>
          \o (IF Len(lessons) > 0 THEN LessonLines(lessons)
              ELSE <<"No lessons available">>),
          "\n")

CourseOutlineTool_execute(tool, kwargs, env) ==
    IF env.kind = "raise"
    THEN Raised(tool, env.error)
    ELSE IF env.kind = "unresolved"
    THEN Returned(tool, "No course found matching '" \o kwargs.course_title[1]
                        \o "'. Please check the course title and try again.")
    ELSE IF env.kind = "no_metadata"
    THEN Returned(tool, "Course '" \o env.course.title[1]
                        \o "' not found in metadata.")
    ELSE Returned(tool, format_course_outline(env.course))

(***************************************************************************)
(* ToolManager: `tools` is the dict of registered tools in insertion order *)
(***************************************************************************)
ToolManager == [tools |-> <<>>]

IndexOf(tm, tool_name) ==
    IF \E i \in 1..Len(tm.tools) : tm.tools[i].name = tool_name
    THEN CHOOSE i \in 1..Len(tm.tools) : tm.tools[i].name = tool_name
    ELSE 0

register_tool_keeps_nameless(tm, tool, declared) ==
    LET key == IF declared = None THEN "" ELSE declared[1]
        i == IndexOf(tm, key)
        keyed == [tool EXCEPT !.name = key]
    IN  [tm |-> IF i = 0 THEN [tm EXCEPT !.tools = Append(@, keyed)]
                ELSE [tm EXCEPT !.tools[i] = keyed],
         raised |-> FALSE, value |-> ""]

\* register_tool(tool): `declared` is tool.get_tool_definition().get("name").
\* A dict assignment keeps the position of a key that is already present.
register_tool(tm, tool, declared) ==
    IF ~TruthyStr(declared)
    THEN [tm |-> tm, raised |-> TRUE,
          value |-> "Tool must have a 'name' in its definition"]
    ELSE LET i == IndexOf(tm, declared[1])
             keyed == [tool EXCEPT !.name = declared[1]]
         IN  [tm |-> IF i = 0 THEN [tm EXCEPT !.tools = Append(@, keyed)]
                     ELSE [tm EXCEPT !.tools[i] = keyed],
              raised |-> FALSE, value |-> ""]

\* Binding of **kwargs to execute's parameters: a TypeError when a required
\* argument is missing or an argument is not a parameter of the tool.
Binds(tool, kwargs) ==
    IF tool.kind = "search"
    THEN kwargs.query # None /\ kwargs.course_title = None
    ELSE kwargs.course_title # None /\ kwargs.query = None
         /\ kwargs.course_name = None /\ kwargs.lesson_number = None

execute_tool_unknown_raises(tm, tool_name, kwargs, env) ==
    LET i == IndexOf(tm, tool_name)
    IN  IF i = 0
        THEN [tm |-> tm, raised |-> TRUE, value |-> "'" \o tool_name \o "'"]
        ELSE IF ~Binds(tm.tools[i], kwargs)
        THEN [tm |-> tm, raised |-> TRUE,
              value |-> "execute() got unexpected or missing arguments"]
        ELSE LET r == IF tm.tools[i].kind = "search"
                      THEN CourseSearchTool_execute(tm.tools[i], kwargs, env)
                      ELSE CourseOutlineTool_execute(tm.tools[i], kwargs, env)
             IN  [tm |-> [tm EXCEPT !.tools[i] = r.tool],
                  raised |-> r.raised, value |-> r.value]

execute_tool_resets_first(tm, tool_name, kwargs, env) ==
    LET i == IndexOf(tm, tool_name)
        cleared == [tm EXCEPT !.tools =
                       [j \in 1..Len(tm.tools) |->
                           [tm.tools[j] EXCEPT !.last_sources = <<>>]]]
    IN  IF i = 0
        THEN [tm |-> tm, raised |-> FALSE,
              value |-> "Tool '" \o tool_name \o "' not found"]
        ELSE IF ~Binds(tm.tools[i], kwargs)
        THEN [tm |-> tm, raised |-> TRUE,
              value |-> "execute() got unexpected or missing arguments"]
        ELSE LET r == IF tm.tools[i].kind = "search"
                      THEN CourseSearchTool_execute(cleared.tools[i], kwargs, env)
                      ELSE CourseOutlineTool_execute(cleared.tools[i], kwargs, env)
             IN  [tm |-> [cleared EXCEPT !.tools[i] = r.tool],
                  raised |-> r.raised, value |-> r.value]

\* [tm, raised, value]: the manager after the call, and what the call did.
execute_tool(tm, tool_name, kwargs, env) ==
    LET i == IndexOf(tm, tool_name)
    IN  IF i = 0
        THEN [tm |-> tm, raised |-> FALSE,
              value |-> "Tool '" \o tool_name \o "' not found"]
        ELSE IF ~Binds(tm.tools[i], kwargs)
        THEN [tm |-> tm, raised |-> TRUE,
              value |-> "execute() got unexpected or missing arguments"]
        ELSE LET r == IF tm.tools[i].kind = "search"
                      THEN CourseSearchTool_execute(tm.tools[i], kwargs, env)
                      ELSE CourseOutlineTool_execute(tm.tools[i], kwargs, env)
             IN  [tm |-> [tm EXCEPT !.tools[i] = r.tool],
                  raised |-> r.raised, value |-> r.value]

HasLastSources(tool) == tool.kind = "search"

get_last_sources(tm) ==
    LET hits == {i \in 1..Len(tm.tools) :
                    HasLastSources(tm.tools[i])
                        /\ Len(tm.tools[i].last_sources) > 0}
    IN  IF hits = {} THEN <<>>
        ELSE tm.tools[CHOOSE i \in hits : \A j \in hits : i <= j].last_sources

reset_sources_keeps_lists(tm) == tm

reset_sources(tm) ==
    [tm EXCEPT !.tools =
        [i \in 1..Len(tm.tools) |->
            IF HasLastSources(tm.tools[i])
            THEN [tm.tools[i] EXCEPT !.last_sources = <<>>]
            ELSE tm.tools[i]]]

(***************************************************************************)
(* The language model's responses                                          *)
(***************************************************************************)
NoKwargs == Kwargs(None, None, None, None)

\* A tool_use id is opaque to the program: the model writes it as the pair
\* of the round and the block's position.
TextBlock(text) ==
    [type |-> "text", text |-> text, id |-> <<>>, name |-> "", input |-> NoKwargs]

ToolUseBlock(id, name, input) ==
    [type |-> "tool_use", text |-> "", id |-> id, name |-> name, input |-> input]

Response(stop_reason, content) == [stop_reason |-> stop_reason, content |-> content]

NoResponse == Response("none", <<>>)

\* One client.messages.create call: it returns a response or raises.
Answered(resp) == [raised |-> FALSE, response |-> resp, error |-> ""]
ApiError(message) == [raised |-> TRUE, response |-> NoResponse, error |-> message]

\* response.content[0].text: IndexError on an empty content list,
\* AttributeError on a first block that is no text block.
first_text(resp) ==
    IF Len(resp.content) = 0
    THEN [raised |-> TRUE, value |-> "list index out of range"]
    ELSE IF resp.content[1].type # "text"
    THEN [raised |-> TRUE, value |-> "object has no attribute 'text'"]
    ELSE [raised |-> FALSE, value |-> resp.content[1].text]

(***************************************************************************)
(* AIGenerator: the sequential protocol                                    *)
(***************************************************************************)
\* api_params; tools = <<>> stands for a request without the "tools" key
ApiParams(messages, system, offered) ==
    [messages |-> messages, system |-> system, tools |-> offered]

\* system_content of generate_response_sequential
system_content(conversation_history) ==
    IF TruthyStr(conversation_history)
    THEN SYSTEM_PROMPT \o "\n\nPrevious conversation:\n" \o conversation_history[1]
    ELSE SYSTEM_PROMPT

new_message_chain(query, conversation_history) ==
    add_user_message(
        SequentialMessageChain(system_content(conversation_history), max_rounds),
        query)

round_api_params(mc, offered) ==
    ApiParams(get_messages(mc), mc.system_prompt,
              IF Len(offered) > 0 /\ should_continue_rounds(mc)
              THEN offered ELSE <<>>)

final_api_params_offers_tools(mc) ==
    ApiParams(get_messages(mc), mc.system_prompt, <<"search_course_content">>)

final_api_params(mc) == ApiParams(get_messages(mc), mc.system_prompt, <<>>)

PartialAnalysisMessage ==
    "I was able to gather some information, though I encountered issues completing my analysis. Please try rephrasing your question."
TechnicalIssueQueryMessage ==
    "I encountered a technical issue while processing your query. Please try again."
PartialResponseMessage ==
    "I gathered some information but encountered issues providing a complete response."
TechnicalIssueMessage ==
    "I encountered a technical issue. Please try again."

\* How generate_response_sequential ends: [outcome, result, handler]
Return(text) == [outcome |-> "returned", result |-> text, handler |-> "none"]
Escape(message) == [outcome |-> "raised", result |-> message, handler |-> "none"]

query_boundary_reraises(mc, error) == Escape(error)

\* except Exception as e: of generate_response_sequential
query_boundary(mc, error) ==
    [outcome |-> "returned",
     result |-> IF mc.round_state.round_number > 0
                THEN PartialAnalysisMessage ELSE TechnicalIssueQueryMessage,
     handler |-> "query_boundary"]

\* response.stop_reason != "tool_use" decides the early return (line 245).
requests_tools_by_content(resp) ==
    \E i \in 1..Len(resp.content) : resp.content[i].type = "tool_use"

requests_tools(resp) == resp.stop_reason = "tool_use"

\* What a round's model call leads to, when the response is no tool-use
\* request or the call failed (lines 243-247 with _execute_round).
round_without_tools(mc, rnd, call) ==
    IF call.raised
    THEN query_boundary(mc, "Round " \o ToString(rnd) \o " API call failed: "
                            \o call.error)
    ELSE LET t == first_text(call.response)
         IN  IF t.raised THEN query_boundary(mc, t.value) ELSE Return(t.value)

ToolResult(id, content) ==
    [type |-> "tool_result", tool_use_id |-> id, content |-> content]

execute_tool_block_drops_failure(st, block, rnd, env) ==
    IF block.type # "tool_use" THEN st
    ELSE LET call == execute_tool(st.tool_manager, block.name, block.input, env)
         IN  IF ~call.raised
             THEN LET tool_sources == get_last_sources(call.tm)
                  IN  [round_state |->
                           add_tool_execution(st.round_state, block.name,
                                              call.value, TRUE),
                       tool_manager |-> call.tm,
                       round_sources |->
                           IF Len(tool_sources) > 0
                           THEN st.round_sources \o tool_sources
                           ELSE st.round_sources,
                       tool_results |->
                           Append(st.tool_results,
                                  ToolResult(block.id, call.value))]
             ELSE [round_state |->
                       add_error(
                           add_tool_execution(st.round_state, block.name,
                                              call.value, FALSE),
                           call.value, rnd),
                   tool_manager |-> call.tm,
                   round_sources |-> st.round_sources,
                   tool_results |-> st.tool_results]

execute_tool_block_failure_first(st, block, rnd, env) ==
    IF block.type # "tool_use" THEN st
    ELSE LET call == execute_tool(st.tool_manager, block.name, block.input, env)
         IN  IF ~call.raised
             THEN LET tool_sources == get_last_sources(call.tm)
                  IN  [round_state |->
                           add_tool_execution(st.round_state, block.name,
                                              call.value, TRUE),
                       tool_manager |-> call.tm,
                       round_sources |->
                           IF Len(tool_sources) > 0
                           THEN st.round_sources \o tool_sources
                           ELSE st.round_sources,
                       tool_results |->
                           Append(st.tool_results,
                                  ToolResult(block.id, call.value))]
             ELSE [round_state |->
                       add_error(
                           add_tool_execution(st.round_state, block.name,
                                              call.value, FALSE),
                           call.value, rnd),
                   tool_manager |-> call.tm,
                   round_sources |-> st.round_sources,
                   tool_results |->
                       <<ToolResult(block.id,
                                    "Tool execution failed: " \o call.value)>>
                           \o st.tool_results]

\* One iteration of the loop of _execute_tools_for_round over a content
\* block; st holds round_state, tool_manager, tool_results, round_sources.
execute_tool_block(st, block, rnd, env) ==
    IF block.type # "tool_use" THEN st
    ELSE LET call == execute_tool(st.tool_manager, block.name, block.input, env)
         IN  IF ~call.raised
             THEN LET tool_sources == get_last_sources(call.tm)
                  IN  [round_state |->
                           add_tool_execution(st.round_state, block.name,
                                              call.value, TRUE),
                       tool_manager |-> call.tm,
                       round_sources |->
                           IF Len(tool_sources) > 0
                           THEN st.round_sources \o tool_sources
                           ELSE st.round_sources,
                       tool_results |->
                           Append(st.tool_results,
                                  ToolResult(block.id, call.value))]
             ELSE [round_state |->
                       add_error(
                           add_tool_execution(st.round_state, block.name,
                                              call.value, FALSE),
                           call.value, rnd),
                   tool_manager |-> call.tm,
                   round_sources |-> st.round_sources,
                   tool_results |->
                       Append(st.tool_results,
                              ToolResult(block.id,
                                  "Tool execution failed: " \o call.value))]

\* The same iteration for any object passed as tool_manager. `after` says
\* what happens in the try block once execute_tool has returned:
\*   "ok"             every step succeeds (always so with ToolManager and
\*                    tools that return strings);
\*   "len_raises"     the result has no len(): add_tool_execution raises
\*                    while it builds the record, before appending it;
\*   "sources_raise"  get_last_sources, or extending round_sources with
\*                    what it returned, raises after the success record.
\* The except branch then runs as for a tool that raised.
execute_tool_attempt(st, block, rnd, env, after) ==
    IF block.type # "tool_use" \/ after = "ok"
    THEN execute_tool_block(st, block, rnd, env)
    ELSE LET call == execute_tool(st.tool_manager, block.name, block.input, env)
             message == IF after = "len_raises"
                        THEN "object has no len()"
                        ELSE "get_last_sources failed"
             tracked == IF after = "len_raises" THEN st.round_state
                        ELSE add_tool_execution(st.round_state, block.name,
                                                call.value, TRUE)
         IN  IF call.raised
             THEN execute_tool_block(st, block, rnd, env)
             ELSE [round_state |->
                       add_error(
                           add_tool_execution(tracked, block.name, message,
                                              FALSE),
                           message, rnd),
                   tool_manager |-> call.tm,
                   round_sources |-> st.round_sources,
                   tool_results |->
                       Append(st.tool_results,
                              ToolResult(block.id,
                                  "Tool execution failed: " \o message))]

\* Lines 254-260: the round's turns and sources go into the chain.
record_round(mc, resp, results, sources, rnd) ==
    LET mc1 == add_assistant_message(mc, resp.content)
        mc2 == add_tool_results(mc1, results)
    IN  IF Len(sources) > 0
        THEN [mc2 EXCEPT !.round_state = add_sources(@, sources, rnd)]
        ELSE mc2

\* Lines 262-267 and the loop header: TRUE when another round follows.
another_round_off_by_one(mc, rnd) ==
    mc.round_state.round_number <= mc.max_rounds /\ rnd <= LastRound

another_round_stops_on_error(mc, rnd) ==
    /\ should_continue_rounds(mc) /\ rnd < LastRound
    /\ Len(mc.round_state.errors_encountered) = 0

another_round_ignores_budget(mc, rnd) == TRUE

another_round(mc, rnd) == should_continue_rounds(mc) /\ rnd < LastRound

execute_final_round_boundary_texts(mc, call) ==
    LET failure == [outcome |-> "returned",
                    result |-> IF mc.round_state.round_number > 0
                               THEN PartialAnalysisMessage
                               ELSE TechnicalIssueQueryMessage,
                    handler |-> "final_round"]
    IN  IF call.raised THEN failure
        ELSE LET t == first_text(call.response)
             IN  IF t.raised THEN failure ELSE Return(t.value)

\* _execute_final_round
execute_final_round(mc, call) ==
    LET failure == [outcome |-> "returned",
                    result |-> IF mc.round_state.round_number > 0
                               THEN PartialResponseMessage
                               ELSE TechnicalIssueMessage,
                    handler |-> "final_round"]
    IN  IF call.raised THEN failure
        ELSE LET t == first_text(call.response)
             IN  IF t.raised THEN failure ELSE Return(t.value)

(***************************************************************************)
(* AIGenerator: the single-round mode (generate_response)                  *)
(***************************************************************************)
\* api_params of generate_response: the "tools" key is set under `if tools:`
generate_response_params(query, conversation_history, offered) ==
    ApiParams(<<[role |-> "user", content |-> query]>>,
              system_content(conversation_history), offered)

direct_response_converts_failure(call) ==
    IF call.raised THEN Return(TechnicalIssueMessage)
    ELSE LET t == first_text(call.response)
         IN  IF t.raised THEN Return(TechnicalIssueMessage) ELSE Return(t.value)

\* Lines 200-207 when no tool is run: the call raises, or its response's
\* first block is read; nothing is caught.
direct_response(call) ==
    IF call.raised THEN Escape(call.error)
    ELSE LET t == first_text(call.response)
         IN  IF t.raised THEN Escape(t.value) ELSE Return(t.value)

\* One iteration of the loop of _handle_tool_execution over a content
\* block; st holds tool_manager, tool_results and whether execute_tool
\* raised. No exception is caught in this loop.
handle_tool_block(st, block, env) ==
    IF block.type # "tool_use" THEN st
    ELSE LET call == execute_tool(st.tool_manager, block.name, block.input, env)
         IN  IF call.raised
             THEN [tool_manager |-> call.tm,
                   tool_results |-> st.tool_results,
                   raised |-> TRUE, error |-> call.value]
             ELSE [tool_manager |-> call.tm,
                   tool_results |->
                       Append(st.tool_results,
                              ToolResult(block.id, call.value)),
                   raised |-> FALSE, error |-> ""]

\* final_params: the first call's messages, the assistant turn, the user
\* turn of tool results under `if tool_results:`, and no "tools" key.
handle_tool_final_params(params, resp, results) ==
    LET m1 == Append(params.messages,
                     [role |-> "assistant", content |-> resp.content])
    IN  ApiParams(IF Len(results) > 0
                  THEN Append(m1, [role |-> "user", content |-> results])
                  ELSE m1,
                  params.system, <<>>)

\* Lines 409-410: the follow-up call raises, or its first block is read.
final_response(call) ==
    IF call.raised THEN Escape(call.error)
    ELSE LET t == first_text(call.response)
         IN  IF t.raised THEN Escape(t.value) ELSE Return(t.value)

(***************************************************************************)
(* Inputs of the model                                                     *)
(***************************************************************************)
Query == "What are Python variables?"

SearchName == "search_course_content"
OutlineName == "get_course_outline"
UnknownName == "unknown_tool"

\* tool_manager of the application: both tools registered, search first
InitialToolManager ==
    [tools |-> <<CourseSearchTool(SearchName), CourseOutlineTool(OutlineName)>>]

\* the `tools` argument: no schema list, or the registered tools' schemas
ToolLists == {<<>>, <<SearchName, OutlineName>>}

Meta(title, lesson) == [course_title |-> title, lesson_number |-> lesson]
Match(doc, meta) == [doc |-> doc, meta |-> meta]

Matches == <<Match("variables store values", Meta(Some("Python Basics"), Some(2))),
             Match("course overview", Meta(Some("Advanced Python"), None))>>

SearchResultsOf(matches) ==
    StoreOutcome("results", matches, "", Some("https://example.com/lesson"),
                 FALSE, NoCourse)
SearchEmpty == StoreOutcome("empty", <<>>, "", None, FALSE, NoCourse)
StoreRaises == StoreOutcome("raise", <<>>, "store unavailable", None, FALSE, NoCourse)
NoStore == StoreOutcome("none", <<>>, "", None, FALSE, NoCourse)

\* One call on a ToolManager: the operation, its arguments (the name asked
\* for, the name the registered tool declares, the keyword arguments), what
\* the store did during the call, and how the call ended.
ManagerCall(op, name, declared, kwargs, store, raised, value) ==
    [op |-> op, name |-> name, declared |-> declared, kwargs |-> kwargs,
     store |-> store, raised |-> raised, value |-> value]

NoCall == ManagerCall("none", "", None, NoKwargs, NoStore, FALSE, "")

\* The tool requests the modelled language model issues.
ToolRequest(name) ==
    IF name = SearchName THEN Kwargs(Some("variables"), None, None, None)
    ELSE IF name = OutlineName THEN Kwargs(None, None, None, Some("Python"))
    ELSE NoKwargs

BlockKinds == {"text", SearchName, OutlineName, UnknownName}

\* What the store may do during the call a block asks for.
StoreOutcomes(tm, block) ==
    LET i == IndexOf(tm, block.name)
    IN  IF i = 0 \/ ~Binds(tm.tools[i], block.input) THEN {NoStore}
        ELSE IF tm.tools[i].kind = "search"
        THEN {SearchResultsOf(Matches), SearchEmpty}
        ELSE {StoreRaises}

ContentShapes ==
    UNION {[1..n -> BlockKinds] : n \in 0..MaxBlocks}

\* The text the model writes in its call-th response: one text per call.
AnswerText(call) ==
    IF call = 1 THEN "answer of call 1"
    ELSE IF call = 2 THEN "answer of call 2"
    ELSE IF call = 3 THEN "answer of call 3"
    ELSE "answer of a later call"

\* The content of the response to the call-th model call of round rnd.
ContentOf(shape, rnd, call) ==
    [i \in 1..Len(shape) |->
        IF shape[i] = "text"
        THEN TextBlock(AnswerText(call))
        ELSE ToolUseBlock(<<rnd, i>>, shape[i], ToolRequest(shape[i]))]

Responses(rnd, call) ==
    {Response(sr, ContentOf(shape, rnd, call)) :
        sr \in {"tool_use", "end_turn"}, shape \in ContentShapes}

\* The synthesis call reads content[0] alone, whatever the stop reason:
\* its responses are the ones of at most one block.
FinalResponses(call) ==
    {Response(sr, ContentOf(shape, 0, call)) :
        sr \in {"tool_use", "end_turn"},
        shape \in {<<>>} \cup {<<kind>> : kind \in BlockKinds}}

(***************************************************************************)
(* Objects of interleaved queries. A Python list is an object reached by   *)
(* reference: the heap holds the list objects by address, and a query's    *)
(* SequentialMessageChain and RoundState hold addresses (0: no object) and *)
(* their two integer fields.                                               *)
(***************************************************************************)
InFlight == {1, 2}

ListObject(field, items) == [field |-> field, items |-> items]

new_list_shared(h, field) ==
    LET same == {a \in 1..Len(h) : h[a].field = field}
    IN  IF same = {}
        THEN [heap |-> Append(h, ListObject(field, <<>>)), ref |-> Len(h) + 1]
        ELSE [heap |-> h, ref |-> CHOOSE a \in same : \A b \in same : a <= b]

\* `self.messages = []` and field(default_factory=list): every instance
\* gets a list object of its own.
new_list(h, field) ==
    [heap |-> Append(h, ListObject(field, <<>>)), ref |-> Len(h) + 1]

\* The locals of one call of generate_response_sequential, and the fields
\* of the chain and round state its message_chain refers to.
NewQuery ==
    [pc |-> "new", round_num |-> FirstRound, response |-> NoResponse,
     blk |-> 1, tool_results |-> <<>>, round_sources |-> <<>>,
     outcome |-> "running", result |-> "",
     messages |-> 0, tools_per_round |-> 0, errors_encountered |-> 0,
     sources_accumulated |-> 0,
     round_number |-> 0, total_tools_executed |-> 0,
     pending |-> <<>>]

NotStarted == [q \in InFlight |-> NewQuery]

Items(h, a) == IF a = 0 THEN <<>> ELSE h[a].items

\* The chain a query's message_chain refers to, read through the heap
ChainOf(h, loc) ==
    [messages |-> Items(h, loc.messages),
     system_prompt |-> system_content(None),
     max_rounds |-> max_rounds,
     round_state |->
         [round_number |-> loc.round_number,
          total_tools_executed |-> loc.total_tools_executed,
          tools_per_round |-> Items(h, loc.tools_per_round),
          errors_encountered |-> Items(h, loc.errors_encountered),
          sources_accumulated |-> Items(h, loc.sources_accumulated)]]

\* The chain's methods change its lists in place: the list objects the
\* query refers to take the contents of mc.
WriteChain(h, loc, mc) ==
    [a \in 1..Len(h) |->
        IF a = loc.messages THEN [h[a] EXCEPT !.items = mc.messages]
        ELSE IF a = loc.tools_per_round
        THEN [h[a] EXCEPT !.items = mc.round_state.tools_per_round]
        ELSE IF a = loc.errors_encountered
        THEN [h[a] EXCEPT !.items = mc.round_state.errors_encountered]
        ELSE IF a = loc.sources_accumulated
        THEN [h[a] EXCEPT !.items = mc.round_state.sources_accumulated]
        ELSE h[a]]

\* The integer fields live in the query's own RoundState object.
WithCounters(loc, mc) ==
    [loc EXCEPT !.round_number = mc.round_state.round_number,
                !.total_tools_executed = mc.round_state.total_tools_executed]

(***************************************************************************)
(* generate_response_sequential as a state machine                         *)
(***************************************************************************)
Init ==
    /\ pc = "round"
    /\ tools \in ToolLists
    /\ tool_manager = InitialToolManager
    /\ message_chain = new_message_chain(Query, None)
    /\ round_num = FirstRound
    /\ response = NoResponse
    /\ blk = 1
    /\ tool_results = <<>>
    /\ round_sources = <<>>
    /\ api_calls = <<>>
    /\ tool_calls = <<>>
    /\ handler = "none"
    /\ outcome = "running"
    /\ result = ""
    /\ round_state = RoundState
    /\ queries = <<>>
    /\ last_call = NoCall
    /\ heap = <<>>
    /\ inflight = NotStarted
    /\ turn = 0

Finish(end) ==
    /\ pc' = "done"
    /\ outcome' = end.outcome
    /\ result' = end.result
    /\ handler' = end.handler

\* rnd: the round of the call, 0 for the synthesis call
ApiCall(rnd, params, call) ==
    [round |-> rnd, params |-> params, raised |-> call.raised,
     response |-> call.response]

\* store: what the store did during the call (the kind of its outcome)
ToolCall(rnd, block, call, env) ==
    [round |-> rnd, id |-> block.id, name |-> block.name, input |-> block.input,
     raised |-> call.raised, value |-> call.value, store |-> env.kind,
     env |-> env]

\* Lines 241-252: the round starts, the model is called, and the response
\* is a tool-use request, an answer, or the call fails.
RoundModelCall(call) ==
    LET mc == chain_advance_round(message_chain)
    IN  /\ pc = "round"
        /\ message_chain' = mc
        /\ api_calls' = Append(api_calls,
                              ApiCall(round_num, round_api_params(mc, tools), call))
        /\ IF ~call.raised /\ requests_tools(call.response)
           THEN /\ pc' = "tools"
                /\ response' = call.response
                /\ blk' = 1
                /\ tool_results' = <<>>
                /\ round_sources' = <<>>
                /\ UNCHANGED <<outcome, result, handler>>
           ELSE /\ Finish(round_without_tools(mc, round_num, call))
                /\ UNCHANGED <<response, blk, tool_results, round_sources>>
        /\ UNCHANGED <<tools, tool_manager, round_num, tool_calls, round_state,
                       queries, last_call, heap, inflight, turn>>

RoundCallFails == RoundModelCall(ApiError("API error"))

RoundAnswers ==
    /\ pc = "round"
    /\ \E r \in Responses(round_num, Len(api_calls) + 1) :
          r.stop_reason # "tool_use" /\ RoundModelCall(Answered(r))

RoundRequestsTools ==
    /\ pc = "round"
    /\ \E r \in Responses(round_num, Len(api_calls) + 1) :
          r.stop_reason = "tool_use" /\ RoundModelCall(Answered(r))

ExecuteBlockRetriesOnce ==
    /\ pc = "tools"
    /\ blk <= Len(response.content)
    /\ LET block == response.content[blk]
       IN  \E env \in StoreOutcomes(tool_manager, block) :
             LET st == execute_tool_block(
                           [round_state |-> message_chain.round_state,
                            tool_manager |-> tool_manager,
                            tool_results |-> tool_results,
                            round_sources |-> round_sources],
                           block, round_num, env)
                 call == execute_tool(tool_manager, block.name, block.input,
                                      env)
                 tried == \E k \in 1..Len(tool_calls) :
                              tool_calls[k].id = block.id
             IN  /\ tool_calls' =
                        IF block.type = "tool_use"
                        THEN Append(tool_calls,
                                    ToolCall(round_num, block, call, env))
                        ELSE tool_calls
                 /\ IF block.type = "tool_use" /\ call.raised /\ ~tried
                    THEN /\ blk' = blk
                         /\ tool_manager' = call.tm
                         /\ UNCHANGED <<message_chain, tool_results,
                                        round_sources>>
                    ELSE /\ blk' = blk + 1
                         /\ message_chain' = [message_chain EXCEPT
                                                 !.round_state = st.round_state]
                         /\ tool_manager' = st.tool_manager
                         /\ tool_results' = st.tool_results
                         /\ round_sources' = st.round_sources
    /\ UNCHANGED <<pc, tools, round_num, response, api_calls, handler,
                   outcome, result, round_state, queries, last_call, heap,
                   inflight, turn>>

\* One iteration of `for content_block in response.content`.
ExecuteBlock ==
    /\ pc = "tools"
    /\ blk <= Len(response.content)
    /\ LET block == response.content[blk]
       IN  \E env \in StoreOutcomes(tool_manager, block) :
             LET st == execute_tool_block(
                           [round_state |-> message_chain.round_state,
                            tool_manager |-> tool_manager,
                            tool_results |-> tool_results,
                            round_sources |-> round_sources],
                           block, round_num, env)
             IN  /\ message_chain' = [message_chain EXCEPT
                                         !.round_state = st.round_state]
                 /\ tool_manager' = st.tool_manager
                 /\ tool_results' = st.tool_results
                 /\ round_sources' = st.round_sources
                 /\ tool_calls' =
                        IF block.type = "tool_use"
                        THEN Append(tool_calls,
                                    ToolCall(round_num, block,
                                        execute_tool(tool_manager, block.name,
                                                     block.input, env),
                                        env))
                        ELSE tool_calls
    /\ blk' = blk + 1
    /\ UNCHANGED <<pc, tools, round_num, response, api_calls, handler,
                   outcome, result, round_state, queries, last_call, heap, inflight, turn>>

\* Lines 254-265: the round is recorded and the loop goes on or ends.
FinishRound ==
    /\ pc = "tools"
    /\ blk > Len(response.content)
    /\ LET mc == record_round(message_chain, response, tool_results,
                              round_sources, round_num)
       IN  /\ message_chain' = mc
           /\ IF another_round(mc, round_num)
              THEN pc' = "round" /\ round_num' = round_num + 1
              ELSE pc' = "final" /\ round_num' = round_num
    /\ UNCHANGED <<tools, tool_manager, response, blk, tool_results,
                   round_sources, api_calls, tool_calls, handler, outcome,
                   result, round_state, queries, last_call, heap, inflight, turn>>

\* Line 267: the synthesis call.
FinalModelCall(call) ==
    /\ pc = "final"
    /\ api_calls' = Append(api_calls,
                          ApiCall(0, final_api_params(message_chain), call))
    /\ Finish(execute_final_round(message_chain, call))
    /\ UNCHANGED <<tools, tool_manager, message_chain, round_num, response,
                   blk, tool_results, round_sources, tool_calls, round_state,
                   queries, last_call, heap, inflight, turn>>

FinalCallFails == FinalModelCall(ApiError("API error"))

FinalAnswers ==
    /\ pc = "final"
    /\ \E r \in FinalResponses(Len(api_calls) + 1) : FinalModelCall(Answered(r))

Next ==
    \/ RoundCallFails
    \/ RoundAnswers
    \/ RoundRequestsTools
    \/ ExecuteBlock
    \/ FinishRound
    \/ FinalCallFails
    \/ FinalAnswers

Spec == Init /\ [][Next]_vars

(***************************************************************************)
(* generate_response_sequential with any object as tool_manager: the steps *)
(* that follow a tool's return may raise                                   *)
(***************************************************************************)
AfterReturn == {"ok", "len_raises", "sources_raise"}

ExecuteAttempt ==
    /\ pc = "tools"
    /\ blk <= Len(response.content)
    /\ LET block == response.content[blk]
       IN  \E env \in StoreOutcomes(tool_manager, block) :
            \E after \in AfterReturn :
             LET st == execute_tool_attempt(
                           [round_state |-> message_chain.round_state,
                            tool_manager |-> tool_manager,
                            tool_results |-> tool_results,
                            round_sources |-> round_sources],
                           block, round_num, env, after)
             IN  /\ message_chain' = [message_chain EXCEPT
                                         !.round_state = st.round_state]
                 /\ tool_manager' = st.tool_manager
                 /\ tool_results' = st.tool_results
                 /\ round_sources' = st.round_sources
                 /\ tool_calls' =
                        IF block.type = "tool_use"
                        THEN Append(tool_calls,
                                    ToolCall(round_num, block,
                                        execute_tool(tool_manager, block.name,
                                                     block.input, env),
                                        env))
                        ELSE tool_calls
    /\ blk' = blk + 1
    /\ UNCHANGED <<pc, tools, round_num, response, api_calls, handler,
                   outcome, result, round_state, queries, last_call, heap, inflight, turn>>

NextAnyManager ==
    \/ RoundCallFails
    \/ RoundAnswers
    \/ RoundRequestsTools
    \/ ExecuteAttempt
    \/ FinishRound
    \/ FinalCallFails
    \/ FinalAnswers

SpecAnyManager == Init /\ [][NextAnyManager]_vars

(***************************************************************************)
(* A RoundState driven directly: any sequence of its operations            *)
(***************************************************************************)
OpsDone(rs) == rs.round_number + rs.total_tools_executed

InitRS ==
    /\ pc = "round_state"
    /\ tools = <<>>
    /\ tool_manager = InitialToolManager
    /\ message_chain = new_message_chain(Query, None)
    /\ round_num = FirstRound
    /\ response = NoResponse
    /\ blk = 1
    /\ tool_results = <<>>
    /\ round_sources = <<>>
    /\ api_calls = <<>>
    /\ tool_calls = <<>>
    /\ handler = "none"
    /\ outcome = "running"
    /\ result = ""
    /\ round_state = RoundState
    /\ queries = <<>>
    /\ last_call = NoCall
    /\ heap = <<>>
    /\ inflight = NotStarted
    /\ turn = 0

OthersUnchanged ==
    UNCHANGED <<pc, tools, tool_manager, message_chain, round_num, response,
                blk, tool_results, round_sources, api_calls, tool_calls,
                handler, outcome, result, queries, last_call, heap, inflight, turn>>

AdvanceRound ==
    /\ pc = "round_state"
    /\ OpsDone(round_state) < MaxOps
    /\ round_state' = advance_round(round_state)
    /\ OthersUnchanged

AddToolExecution ==
    /\ pc = "round_state"
    /\ OpsDone(round_state) < MaxOps
    /\ \E tool_name \in {SearchName, OutlineName},
          tool_result \in {"", "No relevant content found."},
          success \in BOOLEAN :
          round_state' = add_tool_execution(round_state, tool_name,
                                            tool_result, success)
    /\ OthersUnchanged

NextRS == AdvanceRound \/ AddToolExecution

SpecRS == InitRS /\ [][NextRS]_vars

(***************************************************************************)
(* RoundState.add_sources driven directly: any sequence of batches, tagged *)
(* with round numbers that never decrease (one call per round, line 260)   *)
(***************************************************************************)
\* source_data of _format_results
SourceDict(title, lesson, link) ==
    [course_title |-> title, lesson_number |-> lesson, lesson_link |-> link]

\* Lesson 1 of course "A" under two links, and two sources whose keys are
\* close to its key "A_1": "A_1_None" and "A_None".
SourcePool ==
    {SourceDict("A", Some(1), Some("https://example.com/a1")),
     SourceDict("A", Some(1), None),
     SourceDict("A_1", None, None),
     SourceDict("A", None, None)}

Batches == UNION {[1..n -> SourcePool] : n \in 0..MaxBatch}

InitSources ==
    /\ pc = "add_sources"
    /\ tools = <<>>
    /\ tool_manager = InitialToolManager
    /\ message_chain = new_message_chain(Query, None)
    /\ round_num = FirstRound
    /\ response = NoResponse
    /\ blk = 1
    /\ tool_results = <<>>
    /\ round_sources = <<>>
    /\ api_calls = <<>>
    /\ tool_calls = <<>>
    /\ handler = "none"
    /\ outcome = "running"
    /\ result = ""
    /\ round_state = RoundState
    /\ queries = <<>>
    /\ last_call = NoCall
    /\ heap = <<>>
    /\ inflight = NotStarted
    /\ turn = 0

\* round_state.add_sources(round_sources, round_num)
AddSources ==
    /\ pc = "add_sources"
    /\ \E batch \in Batches, rnd \in round_num..LastRound :
          /\ round_sources' = batch
          /\ round_num' = rnd
          /\ round_state' = add_sources(round_state, batch, rnd)
    /\ UNCHANGED <<pc, tools, tool_manager, message_chain, response, blk,
                   tool_results, api_calls, tool_calls, handler, outcome,
                   result, queries, last_call, heap, inflight, turn>>

NextSources == AddSources

SpecSources == InitSources /\ [][NextSources]_vars

(***************************************************************************)
(* Several queries on one ToolManager. The caller of the generator         *)
(* (RAGSystem.query) reads the sources of the query from the side channel  *)
(* and clears it once the generator has returned; the locals of            *)
(* generate_response_sequential end with the call.                         *)
(***************************************************************************)
InitQueries ==
    /\ Init
    /\ Len(tools) > 0

QueryReturns ==
    /\ pc = "done"
    /\ queries' = Append(queries, get_last_sources(tool_manager))
    /\ tool_manager' = reset_sources(tool_manager)
    /\ pc' = "idle"
    /\ message_chain' = new_message_chain(Query, None)
    /\ round_num' = FirstRound
    /\ response' = NoResponse
    /\ blk' = 1
    /\ tool_results' = <<>>
    /\ round_sources' = <<>>
    /\ api_calls' = <<>>
    /\ tool_calls' = <<>>
    /\ handler' = "none"
    /\ outcome' = "running"
    /\ result' = ""
    /\ UNCHANGED <<tools, round_state, last_call, heap, inflight, turn>>

\* The next query enters generate_response_sequential (lines 227-236).
StartQuery ==
    /\ pc = "idle"
    /\ Len(queries) < MaxQueries
    /\ pc' = "round"
    /\ UNCHANGED <<tools, tool_manager, message_chain, round_num, response,
                   blk, tool_results, round_sources, api_calls, tool_calls,
                   handler, outcome, result, round_state, queries, last_call, heap, inflight, turn>>

NextQueries == Next \/ QueryReturns \/ StartQuery

SpecQueries == InitQueries /\ [][NextQueries]_vars

(***************************************************************************)
(* A ToolManager driven directly: tools are registered, executed by name   *)
(* and reset in any order                                                  *)
(***************************************************************************)
\* A second tool that tracks sources in a last_sources attribute
LessonSearchName == "search_lesson_content"

\* The tools handed to register_tool, each with the name its definition
\* declares: the two tools of the application, a second source-tracking
\* tool, an outline tool declaring the search tool's name, and two tools
\* whose definition has no usable name.
ToolPool ==
    {<<CourseSearchTool(SearchName), Some(SearchName)>>,
     <<CourseOutlineTool(OutlineName), Some(OutlineName)>>,
     <<CourseSearchTool(LessonSearchName), Some(LessonSearchName)>>,
     <<CourseOutlineTool(SearchName), Some(SearchName)>>,
     <<CourseSearchTool(""), None>>,
     <<CourseOutlineTool(""), Some("")>>}

\* The keyword arguments of the direct calls
DirectRequests(name) ==
    IF name \in {SearchName, LessonSearchName}
    THEN {Kwargs(Some("variables"), None, None, None),
          Kwargs(Some("variables"), Some("NonExistent"), None, None),
          Kwargs(Some("variables"), None, Some(0), None),
          Kwargs(Some("variables"), Some("Python Basics"), Some(5), None),
          NoKwargs}
    ELSE IF name = OutlineName THEN {Kwargs(None, None, None, Some("Python"))}
    ELSE {NoKwargs}

SearchError ==
    StoreOutcome("error", <<>>, "Database connection failed", None, FALSE,
                 NoCourse)
LinkRaises(matches) ==
    StoreOutcome("results", matches, "", None, TRUE, NoCourse)
Unresolved == StoreOutcome("unresolved", <<>>, "", None, FALSE, NoCourse)

\* A match whose metadata has neither course_title nor lesson_number
Malformed == <<Match("Some content", Meta(None, None))>>

PythonCourse ==
    [title |-> Some("Python Basics"), instructor |-> Some("Ada"),
     course_link |-> None,
     lessons |-> <<[lesson_number |-> 1, lesson_title |-> "Variables",
                    lesson_link |-> Some("https://example.com/lesson")],
                   [lesson_number |-> 0, lesson_title |-> "Introduction",
                    lesson_link |-> None]>>]
OutlineFound == StoreOutcome("outline", <<>>, "", None, FALSE, PythonCourse)
NoMetadata == StoreOutcome("no_metadata", <<>>, "", None, FALSE, PythonCourse)

\* What the store may do during a direct call.
DirectOutcomes(tm, name, kwargs) ==
    LET i == IndexOf(tm, name)
    IN  IF i = 0 \/ ~Binds(tm.tools[i], kwargs) THEN {NoStore}
        ELSE IF tm.tools[i].kind = "search"
        THEN {SearchResultsOf(Matches), SearchResultsOf(<<Matches[2]>>),
              SearchResultsOf(Malformed),
              LinkRaises(Matches), LinkRaises(Malformed), SearchEmpty, SearchError, StoreRaises}
        ELSE {StoreRaises, Unresolved, OutlineFound, NoMetadata}

InitRegistry ==
    /\ pc = "registry"
    /\ tools = <<>>
    /\ tool_manager = ToolManager
    /\ message_chain = new_message_chain(Query, None)
    /\ round_num = FirstRound
    /\ response = NoResponse
    /\ blk = 1
    /\ tool_results = <<>>
    /\ round_sources = <<>>
    /\ api_calls = <<>>
    /\ tool_calls = <<>>
    /\ handler = "none"
    /\ outcome = "running"
    /\ result = ""
    /\ round_state = RoundState
    /\ queries = <<>>
    /\ last_call = NoCall
    /\ heap = <<>>
    /\ inflight = NotStarted
    /\ turn = 0

RegistryFrame ==
    UNCHANGED <<pc, tools, message_chain, round_num, response, blk,
                tool_results, round_sources, api_calls, tool_calls, handler,
                outcome, result, round_state, queries, heap, inflight,
                turn>>

RegisterTool ==
    /\ pc = "registry"
    /\ \E t \in ToolPool :
          LET call == register_tool(tool_manager, t[1], t[2])
          IN  /\ tool_manager' = call.tm
              /\ last_call' = ManagerCall("register_tool", "", t[2], NoKwargs,
                                          NoStore, call.raised, call.value)
    /\ RegistryFrame

ExecuteTool ==
    /\ pc = "registry"
    /\ \E name \in {SearchName, LessonSearchName, OutlineName, UnknownName} :
          \E kwargs \in DirectRequests(name) :
             \E env \in DirectOutcomes(tool_manager, name, kwargs) :
                LET call == execute_tool(tool_manager, name, kwargs, env)
                IN  /\ tool_manager' = call.tm
                    /\ last_call' = ManagerCall("execute_tool", name, None,
                                                kwargs, env, call.raised,
                                                call.value)
    /\ RegistryFrame

ResetSources ==
    /\ pc = "registry"
    /\ tool_manager' = reset_sources(tool_manager)
    /\ last_call' = ManagerCall("reset_sources", "", None, NoKwargs, NoStore,
                                FALSE, "")
    /\ RegistryFrame

NextRegistry == RegisterTool \/ ExecuteTool \/ ResetSources

SpecRegistry == InitRegistry /\ [][NextRegistry]_vars

(***************************************************************************)
(* The sequential protocol replayed on recorded model responses and store  *)
(* outcomes, for a chain built with a round budget of maxr                 *)
(***************************************************************************)
\* The loop of _execute_tools_for_round over blocks i.. of the content;
\* a block meets the store outcome recorded for its tool_use id.
RECURSIVE execute_tools_for_round(_, _, _, _, _)
execute_tools_for_round(st, content, i, rnd, calls) ==
    IF i > Len(content) THEN st
    ELSE LET block == content[i]
             hits == {k \in 1..Len(calls) : calls[k].id = block.id}
             env == IF block.type = "tool_use" /\ hits # {}
                    THEN calls[CHOOSE k \in hits : TRUE].env
                    ELSE NoStore
         IN  execute_tools_for_round(
                 execute_tool_block(st, block, rnd, env),
                 content, i + 1, rnd, calls)

\* Round 1 of generate_response_sequential on a chain of budget maxr, for
\* the first response resp: the parameters of the round's call, and, when
\* the response asks for tools, the tool records of the round, whether
\* another round follows, and the parameters of the next model call.
sequential_first_round(maxr, offered, resp, calls) ==
    LET mc0 == add_user_message(
                   SequentialMessageChain(system_content(None), maxr), Query)
        mc1 == chain_advance_round(mc0)
        st == execute_tools_for_round(
                  [round_state |-> mc1.round_state,
                   tool_manager |-> InitialToolManager,
                   tool_results |-> <<>>,
                   round_sources |-> <<>>],
                  resp.content, 1, FirstRound, calls)
        mc2 == record_round([mc1 EXCEPT !.round_state = st.round_state],
                            resp, st.tool_results, st.round_sources,
                            FirstRound)
        again == another_round(mc2, FirstRound)
    IN  [first |-> round_api_params(mc1, offered),
         executed |-> st.round_state.tools_per_round[1],
         another_round |-> again,
         next |-> IF again
                  THEN round_api_params(chain_advance_round(mc2), offered)
                  ELSE final_api_params(mc2)]

\* What the store may do during a tool call of the single-round mode.
SingleOutcomes(tm, block) ==
    LET i == IndexOf(tm, block.name)
    IN  IF i = 0 \/ ~Binds(tm.tools[i], block.input) THEN {NoStore}
        ELSE IF tm.tools[i].kind = "search"
        THEN {SearchResultsOf(Matches), SearchEmpty}
        ELSE {OutlineFound, StoreRaises}

(***************************************************************************)
(* generate_response as a state machine: one query in single-round mode.   *)
(* The tool manager is the application's, an object that is always true in *)
(* `response.stop_reason == "tool_use" and tool_manager`.                  *)
(***************************************************************************)
InitSingle ==
    /\ pc = "single"
    /\ tools \in ToolLists
    /\ tool_manager = InitialToolManager
    /\ message_chain = new_message_chain(Query, None)
    /\ round_num = FirstRound
    /\ response = NoResponse
    /\ blk = 1
    /\ tool_results = <<>>
    /\ round_sources = <<>>
    /\ api_calls = <<>>
    /\ tool_calls = <<>>
    /\ handler = "none"
    /\ outcome = "running"
    /\ result = ""
    /\ round_state = RoundState
    /\ queries = <<>>
    /\ last_call = NoCall
    /\ heap = <<>>
    /\ inflight = NotStarted
    /\ turn = 0

\* Lines 200-207: the first model call.
SingleModelCall(call) ==
    /\ pc = "single"
    /\ api_calls' = Append(api_calls,
                          ApiCall(FirstRound,
                                  generate_response_params(Query, None, tools),
                                  call))
    /\ IF ~call.raised /\ requests_tools(call.response)
       THEN /\ pc' = "handle_tools"
            /\ response' = call.response
            /\ blk' = 1
            /\ tool_results' = <<>>
            /\ UNCHANGED <<outcome, result, handler>>
       ELSE /\ Finish(direct_response(call))
            /\ UNCHANGED <<response, blk, tool_results>>
    /\ UNCHANGED <<tools, tool_manager, message_chain, round_num,
                   round_sources, tool_calls, round_state, queries, last_call, heap, inflight, turn>>

SingleCallFails == SingleModelCall(ApiError("API error"))

SingleAnswers ==
    /\ pc = "single"
    /\ \E r \in Responses(FirstRound, 1) :
          r.stop_reason # "tool_use" /\ SingleModelCall(Answered(r))

SingleRequestsTools ==
    /\ pc = "single"
    /\ \E r \in Responses(FirstRound, 1) :
          r.stop_reason = "tool_use" /\ SingleModelCall(Answered(r))

\* One iteration of `for content_block in initial_response.content`; an
\* exception of execute_tool leaves generate_response.
HandleBlock ==
    /\ pc = "handle_tools"
    /\ blk <= Len(response.content)
    /\ LET block == response.content[blk]
       IN  \E env \in SingleOutcomes(tool_manager, block) :
             LET st == handle_tool_block(
                           [tool_manager |-> tool_manager,
                            tool_results |-> tool_results,
                            raised |-> FALSE, error |-> ""],
                           block, env)
             IN  /\ tool_manager' = st.tool_manager
                 /\ tool_results' = st.tool_results
                 /\ tool_calls' =
                        IF block.type = "tool_use"
                        THEN Append(tool_calls,
                                    ToolCall(FirstRound, block,
                                        execute_tool(tool_manager, block.name,
                                                     block.input, env),
                                        env))
                        ELSE tool_calls
                 /\ IF st.raised
                    THEN Finish(Escape(st.error)) /\ blk' = blk
                    ELSE /\ blk' = blk + 1
                         /\ UNCHANGED <<pc, outcome, result, handler>>
    /\ UNCHANGED <<tools, message_chain, round_num, response, round_sources,
                   api_calls, round_state, queries, last_call, heap, inflight, turn>>

\* Lines 397-410: the follow-up call without tools.
FollowUpCall(call) ==
    /\ pc = "handle_tools"
    /\ blk > Len(response.content)
    /\ api_calls' =
          Append(api_calls,
                 ApiCall(0,
                         handle_tool_final_params(
                             generate_response_params(Query, None, tools),
                             response, tool_results),
                         call))
    /\ Finish(final_response(call))
    /\ UNCHANGED <<tools, tool_manager, message_chain, round_num, response,
                   blk, tool_results, round_sources, tool_calls, round_state,
                   queries, last_call, heap, inflight, turn>>

FollowUpFails == FollowUpCall(ApiError("API error"))

FollowUpAnswers ==
    /\ pc = "handle_tools"
    /\ \E r \in FinalResponses(2) : FollowUpCall(Answered(r))

NextSingle ==
    \/ SingleCallFails
    \/ SingleAnswers
    \/ SingleRequestsTools
    \/ HandleBlock
    \/ FollowUpFails
    \/ FollowUpAnswers

SpecSingle == InitSingle /\ [][NextSingle]_vars

(***************************************************************************)
(* Two calls of generate_response_sequential on one AIGenerator and one    *)
(* ToolManager, their steps interleaved in any order                       *)
(***************************************************************************)
\* The model's answers to a round's call and to the synthesis call
InterleavedCalls(rnd) ==
    {ApiError("API error")}
        \cup {Answered(Response("tool_use", ContentOf(<<SearchName>>, rnd, rnd))),
              Answered(Response("tool_use", ContentOf(<<OutlineName>>, rnd, rnd))),
              Answered(Response("end_turn", ContentOf(<<"text">>, rnd, rnd)))}

InterleavedFinalCalls ==
    {ApiError("API error"),
     Answered(Response("end_turn", ContentOf(<<"text">>, 0, 3)))}

InitInterleaved ==
    /\ pc = "interleaved"
    /\ tools = <<SearchName, OutlineName>>
    /\ tool_manager = InitialToolManager
    /\ message_chain = new_message_chain(Query, None)
    /\ round_num = FirstRound
    /\ response = NoResponse
    /\ blk = 1
    /\ tool_results = <<>>
    /\ round_sources = <<>>
    /\ api_calls = <<>>
    /\ tool_calls = <<>>
    /\ handler = "none"
    /\ outcome = "running"
    /\ result = ""
    /\ round_state = RoundState
    /\ queries = <<>>
    /\ last_call = NoCall
    /\ heap = <<>>
    /\ inflight = NotStarted
    /\ turn = 0

\* One step of query q: its locals become loc, the lists of its chain take
\* the contents of mc, the shared ToolManager becomes tm.
QueryStep(q, h, loc, mc, tm) ==
    /\ heap' = WriteChain(h, loc, mc)
    /\ inflight' = [inflight EXCEPT ![q] = WithCounters(loc, mc)]
    /\ tool_manager' = tm
    /\ turn' = q
    /\ UNCHANGED <<pc, tools, message_chain, round_num, response, blk,
                   tool_results, round_sources, api_calls, tool_calls, handler,
                   outcome, result, round_state, queries, last_call>>

\* Lines 234-236: the chain and its round state are built.
QueryStart(q) ==
    /\ pc = "interleaved"
    /\ inflight[q].pc = "new"
    /\ LET m == new_list(heap, "messages")
           t == new_list(m.heap, "tools_per_round")
           e == new_list(t.heap, "errors_encountered")
           a == new_list(e.heap, "sources_accumulated")
           loc == [inflight[q] EXCEPT !.pc = "round",
                                      !.messages = m.ref,
                                      !.tools_per_round = t.ref,
                                      !.errors_encountered = e.ref,
                                      !.sources_accumulated = a.ref]
       IN  QueryStep(q, a.heap, loc,
                     add_user_message(ChainOf(a.heap, loc), Query),
                     tool_manager)

\* Lines 241-252 for query q
QueryRound(q) ==
    /\ pc = "interleaved"
    /\ inflight[q].pc = "round"
    /\ \E call \in InterleavedCalls(inflight[q].round_num) :
          LET loc == inflight[q]
              mc == chain_advance_round(ChainOf(heap, loc))
          IN  IF ~call.raised /\ requests_tools(call.response)
              THEN QueryStep(q, heap,
                             [loc EXCEPT !.pc = "tools",
                                         !.response = call.response,
                                         !.blk = 1,
                                         !.tool_results = <<>>,
                                         !.round_sources = <<>>],
                             mc, tool_manager)
              ELSE LET end == round_without_tools(mc, loc.round_num, call)
                   IN  QueryStep(q, heap,
                                 [loc EXCEPT !.pc = "done",
                                             !.outcome = end.outcome,
                                             !.result = end.result],
                                 mc, tool_manager)

\* One iteration of the loop of _execute_tools_for_round for query q
QueryTool(q) ==
    /\ pc = "interleaved"
    /\ inflight[q].pc = "tools"
    /\ inflight[q].blk <= Len(inflight[q].response.content)
    /\ LET loc == inflight[q]
           mc == ChainOf(heap, loc)
           block == loc.response.content[loc.blk]
       IN  \E env \in StoreOutcomes(tool_manager, block) :
             LET st == execute_tool_block(
                           [round_state |-> mc.round_state,
                            tool_manager |-> tool_manager,
                            tool_results |-> loc.tool_results,
                            round_sources |-> loc.round_sources],
                           block, loc.round_num, env)
             IN  QueryStep(q, heap,
                           [loc EXCEPT !.blk = @ + 1,
                                       !.tool_results = st.tool_results,
                                       !.round_sources = st.round_sources],
                           [mc EXCEPT !.round_state = st.round_state],
                           st.tool_manager)

\* Lines 254-265 for query q
QueryFinishRound(q) ==
    /\ pc = "interleaved"
    /\ inflight[q].pc = "tools"
    /\ inflight[q].blk > Len(inflight[q].response.content)
    /\ LET loc == inflight[q]
           mc == record_round(ChainOf(heap, loc), loc.response,
                              loc.tool_results, loc.round_sources,
                              loc.round_num)
       IN  IF another_round(mc, loc.round_num)
           THEN QueryStep(q, heap,
                          [loc EXCEPT !.pc = "round", !.round_num = @ + 1],
                          mc, tool_manager)
           ELSE QueryStep(q, heap, [loc EXCEPT !.pc = "final"], mc,
                          tool_manager)

\* Line 267 for query q
QueryFinal(q) ==
    /\ pc = "interleaved"
    /\ inflight[q].pc = "final"
    /\ \E call \in InterleavedFinalCalls :
          LET loc == inflight[q]
              mc == ChainOf(heap, loc)
              end == execute_final_round(mc, call)
          IN  QueryStep(q, heap,
                        [loc EXCEPT !.pc = "done",
                                    !.outcome = end.outcome,
                                    !.result = end.result],
                        mc, tool_manager)

NextInterleaved ==
    \E q \in InFlight :
        \/ QueryStart(q)
        \/ QueryRound(q)
        \/ QueryTool(q)
        \/ QueryFinishRound(q)
        \/ QueryFinal(q)

SpecInterleaved == InitInterleaved /\ [][NextInterleaved]_vars

(***************************************************************************)
(* Two calls of generate_response_sequential on one ToolManager, a call    *)
(* being suspended between execute_tool (line 310) and get_last_sources    *)
(* (line 320). `pending` holds the result execute_tool returned until the  *)
(* rest of the try block has run. Each query's searches match a passage of *)
(* its own course.                                                         *)
(***************************************************************************)
MatchesOf(q) == <<Matches[q]>>

RaceCalls(rnd) ==
    {ApiError("API error"),
     Answered(Response("tool_use", ContentOf(<<SearchName>>, rnd, rnd))),
     Answered(Response("end_turn", ContentOf(<<"text">>, rnd, rnd)))}

\* Lines 315-329: the steps of the try block after execute_tool returned
\* `value`; st.tool_manager is the shared ToolManager as it is by then.
collect_tool_result(st, block, value) ==
    LET tool_sources == get_last_sources(st.tool_manager)
    IN  [round_state |->
             add_tool_execution(st.round_state, block.name, value, TRUE),
         tool_manager |-> st.tool_manager,
         round_sources |->
             IF Len(tool_sources) > 0
             THEN st.round_sources \o tool_sources
             ELSE st.round_sources,
         tool_results |->
             Append(st.tool_results, ToolResult(block.id, value))]

\* Lines 241-252 for query q
RaceRound(q) ==
    /\ pc = "interleaved"
    /\ inflight[q].pc = "round"
    /\ \E call \in RaceCalls(inflight[q].round_num) :
          LET loc == inflight[q]
              mc == chain_advance_round(ChainOf(heap, loc))
          IN  IF ~call.raised /\ requests_tools(call.response)
              THEN QueryStep(q, heap,
                             [loc EXCEPT !.pc = "tools",
                                         !.response = call.response,
                                         !.blk = 1,
                                         !.tool_results = <<>>,
                                         !.round_sources = <<>>],
                             mc, tool_manager)
              ELSE LET end == round_without_tools(mc, loc.round_num, call)
                   IN  QueryStep(q, heap,
                                 [loc EXCEPT !.pc = "done",
                                             !.outcome = end.outcome,
                                             !.result = end.result],
                                 mc, tool_manager)

\* Lines 310-313 for query q: execute_tool runs on the shared ToolManager. A
\* call that raises goes through the except branch at once (it reads
\* nothing of the ToolManager).
RaceExecuteTool(q) ==
    /\ pc = "interleaved"
    /\ inflight[q].pc = "tools"
    /\ inflight[q].pending = <<>>
    /\ inflight[q].blk <= Len(inflight[q].response.content)
    /\ LET loc == inflight[q]
           mc == ChainOf(heap, loc)
           block == loc.response.content[loc.blk]
           env == SearchResultsOf(MatchesOf(q))
           call == execute_tool(tool_manager, block.name, block.input, env)
       IN  IF block.type = "tool_use" /\ ~call.raised
           THEN QueryStep(q, heap, [loc EXCEPT !.pending = <<call.value>>],
                          mc, call.tm)
           ELSE LET st == execute_tool_block(
                              [round_state |-> mc.round_state,
                               tool_manager |-> tool_manager,
                               tool_results |-> loc.tool_results,
                               round_sources |-> loc.round_sources],
                              block, loc.round_num, env)
                IN  QueryStep(q, heap,
                              [loc EXCEPT !.blk = @ + 1,
                                          !.tool_results = st.tool_results,
                                          !.round_sources = st.round_sources],
                              [mc EXCEPT !.round_state = st.round_state],
                              st.tool_manager)

\* Lines 315-329 for query q
RaceCollect(q) ==
    /\ pc = "interleaved"
    /\ inflight[q].pc = "tools"
    /\ inflight[q].pending # <<>>
    /\ LET loc == inflight[q]
           mc == ChainOf(heap, loc)
           block == loc.response.content[loc.blk]
           st == collect_tool_result(
                     [round_state |-> mc.round_state,
                      tool_manager |-> tool_manager,
                      tool_results |-> loc.tool_results,
                      round_sources |-> loc.round_sources],
                     block, loc.pending[1])
       IN  QueryStep(q, heap,
                     [loc EXCEPT !.blk = @ + 1,
                                 !.pending = <<>>,
                                 !.tool_results = st.tool_results,
                                 !.round_sources = st.round_sources],
                     [mc EXCEPT !.round_state = st.round_state],
                     st.tool_manager)

\* Lines 254-265 for query q, once the loop over the blocks is over
RaceFinishRound(q) == inflight[q].pending = <<>> /\ QueryFinishRound(q)

NextRace ==
    \E q \in InFlight :
        \/ QueryStart(q)
        \/ RaceRound(q)
        \/ RaceExecuteTool(q)
        \/ RaceCollect(q)
        \/ RaceFinishRound(q)
        \/ QueryFinal(q)

SpecRace == InitInterleaved /\ [][NextRace]_vars

\* The same two calls when no call is suspended between lines 313 and 320:
\* while a result is pending only its own query takes a step.
NextRaceNotSuspended ==
    \E q \in InFlight :
        /\ \A p \in InFlight \ {q} : inflight[p].pending = <<>>
        /\ \/ QueryStart(q)
           \/ RaceRound(q)
           \/ RaceExecuteTool(q)
           \/ RaceCollect(q)
           \/ RaceFinishRound(q)
           \/ QueryFinal(q)

SpecRaceNotSuspended == InitInterleaved /\ [][NextRaceNotSuspended]_vars

(***************************************************************************)
(* generate_response_sequential with a store that may raise during a       *)
(* search as well: CourseSearchTool.execute catches the exception itself   *)
(***************************************************************************)
FailingStoreOutcomes(tm, block) ==
    LET i == IndexOf(tm, block.name)
    IN  IF i = 0 \/ ~Binds(tm.tools[i], block.input) THEN {NoStore}
        ELSE IF tm.tools[i].kind = "search"
        THEN {SearchResultsOf(Matches), StoreRaises}
        ELSE {StoreRaises}

ExecuteBlockStoreFails ==
    /\ pc = "tools"
    /\ blk <= Len(response.content)
    /\ LET block == response.content[blk]
       IN  \E env \in FailingStoreOutcomes(tool_manager, block) :
             LET st == execute_tool_block(
                           [round_state |-> message_chain.round_state,
                            tool_manager |-> tool_manager,
                            tool_results |-> tool_results,
                            round_sources |-> round_sources],
                           block, round_num, env)
             IN  /\ message_chain' = [message_chain EXCEPT
                                         !.round_state = st.round_state]
                 /\ tool_manager' = st.tool_manager
                 /\ tool_results' = st.tool_results
                 /\ round_sources' = st.round_sources
                 /\ tool_calls' =
                        IF block.type = "tool_use"
                        THEN Append(tool_calls,
                                    ToolCall(round_num, block,
                                        execute_tool(tool_manager, block.name,
                                                     block.input, env),
                                        env))
                        ELSE tool_calls
    /\ blk' = blk + 1
    /\ UNCHANGED <<pc, tools, round_num, response, api_calls, handler,
                   outcome, result, round_state, queries, last_call, heap,
                   inflight, turn>>

NextStoreFails ==
    \/ RoundCallFails
    \/ RoundAnswers
    \/ RoundRequestsTools
    \/ ExecuteBlockStoreFails
    \/ FinishRound
    \/ FinalCallFails
    \/ FinalAnswers

SpecStoreFails == Init /\ [][NextStoreFails]_vars

(***************************************************************************)
(* RoundState.add_sources on sources whose titles hold the separator of    *)
(* the key and whose lesson number is an integer, None or absent           *)
(***************************************************************************)
\* Source dicts with pairwise different (course_title, lesson_number)
\* pairs whose parts join to similar texts: "A" with 1, None and nothing;
\* "A_1" and "A1" with nothing. A dict without the 'lesson_number' key is a
\* record without that field.
DistinctPool ==
    {[course_title |-> "A", lesson_number |-> Some(1)],
     [course_title |-> "A", lesson_number |-> None],
     [course_title |-> "A"],
     [course_title |-> "A_1"],
     [course_title |-> "A1"]}

InitDedup ==
    /\ pc = "dedup"
    /\ tools = <<>>
    /\ tool_manager = InitialToolManager
    /\ message_chain = new_message_chain(Query, None)
    /\ round_num = FirstRound
    /\ response = NoResponse
    /\ blk = 1
    /\ tool_results = <<>>
    /\ round_sources = <<>>
    /\ api_calls = <<>>
    /\ tool_calls = <<>>
    /\ handler = "none"
    /\ outcome = "running"
    /\ result = ""
    /\ round_state = RoundState
    /\ queries = <<>>
    /\ last_call = NoCall
    /\ heap = <<>>
    /\ inflight = NotStarted
    /\ turn = 0

\* round_state.add_sources(round_sources, round_num) on a batch of the pool
AddDistinctSources ==
    /\ pc = "dedup"
    /\ \E batch \in UNION {[1..n -> DistinctPool] : n \in 1..MaxBatch} :
          /\ round_sources' = batch
          /\ round_state' = add_sources(round_state, batch, round_num)
    /\ UNCHANGED <<pc, tools, tool_manager, message_chain, round_num,
                   response, blk, tool_results, api_calls, tool_calls,
                   handler, outcome, result, queries, last_call, heap,
                   inflight, turn>>

SpecDedup == InitDedup /\ [][AddDistinctSources]_vars

(***************************************************************************)
(* Properties                                                              *)
(***************************************************************************)
Messages == message_chain.messages
QueryState == message_chain.round_state

ToolUseCount(content) ==
    Cardinality({i \in 1..Len(content) : content[i].type = "tool_use"})

\* The model call of round k returned a response (rather than raising).
CallAnswered(k) == k <= Len(api_calls) /\ ~api_calls[k].raised

RequestedTools(k) ==
    CallAnswered(k) /\ api_calls[k].response.stop_reason = "tool_use"

\* The response has a first block that is a text block.
HasText(resp) == Len(resp.content) > 0 /\ resp.content[1].type = "text"

\* C1: every assistant tool-use turn of the chain is followed by a user
\* turn holding one tool_result per tool_use block of that turn, whatever
\* the tools did (returned or raised); a turn without any tool_use block is
\* followed by no tool-result turn.
C1_MessageBalance ==
    \A i \in 1..Len(Messages) :
        Messages[i].role = "assistant" =>
            LET n == ToolUseCount(Messages[i].content)
            IN  IF n > 0
                THEN /\ i < Len(Messages)
                     /\ Messages[i + 1].role = "user"
                     /\ Len(Messages[i + 1].content) = n
                     /\ \A k \in 1..n :
                            Messages[i + 1].content[k].type = "tool_result"
                ELSE i = Len(Messages) \/ Messages[i + 1].role = "assistant"

\* A recorded round of two tool_use blocks, one call returned, one raised.
C1_Witness ==
    /\ Len(Messages) >= 3
    /\ Messages[2].role = "assistant"
    /\ ToolUseCount(Messages[2].content) = 2
    /\ \E j, k \in 1..Len(QueryState.tools_per_round[1]) :
           /\ QueryState.tools_per_round[1][j].success
           /\ ~QueryState.tools_per_round[1][k].success

\* C2: when the model requested tools in round 1 and in round 2, the query
\* ends after exactly three model calls, the third carries no tool schemas,
\* and the text of the third response is what is returned.
C2_ExhaustionPath ==
    (pc = "done" /\ RequestedTools(1) /\ RequestedTools(2)) =>
        /\ Len(api_calls) = 3
        /\ api_calls[3].round = 0
        /\ api_calls[3].params.tools = <<>>
        /\ (CallAnswered(3) /\ HasText(api_calls[3].response)) =>
               /\ outcome = "returned"
               /\ result = api_calls[3].response.content[1].text

C2_Witness ==
    /\ pc = "done" /\ RequestedTools(1) /\ RequestedTools(2)
    /\ Len(tools) > 0
    /\ Len(tool_calls) >= 2
    /\ CallAnswered(3) /\ result = AnswerText(3)

\* C3: when the response of round k (1 or 2) is no tool-use request, the
\* query is over at once: k model calls in all, none of them the synthesis
\* call, tools invoked in rounds before k only, and the text of that
\* response returned.
C3_EarlyExit ==
    \A k \in FirstRound..LastRound :
        (CallAnswered(k) /\ ~RequestedTools(k)) =>
            /\ pc = "done"
            /\ Len(api_calls) = k
            /\ \A c \in 1..k : api_calls[c].round = c
            /\ \A c \in 1..Len(tool_calls) : tool_calls[c].round < k
            /\ HasText(api_calls[k].response) =>
                   /\ outcome = "returned"
                   /\ result = api_calls[k].response.content[1].text

\* An early exit in round 2, after round 1 invoked a tool.
C3_Witness ==
    /\ CallAnswered(2) /\ ~RequestedTools(2)
    /\ Len(tool_calls) > 0
    /\ result = AnswerText(2)

\* C4: with a non-empty tool list, the model call of every round carries
\* the tool schema list.
C4_ToolsOfferedEveryRound ==
    \A c \in 1..Len(api_calls) :
        (Len(tools) > 0 /\ api_calls[c].round > 0) =>
            api_calls[c].params.tools = tools

\* C5: no exception leaves generate_response_sequential; whatever failed,
\* the call returns a non-empty string.
C5_NoExceptionEscapes ==
    /\ outcome # "raised"
    /\ pc = "done" => (outcome = "returned" /\ Len(result) > 0)

\* A malformed answer (no content) in round 2, after a tool raised in round 1.
C5_Witness ==
    /\ pc = "done"
    /\ CallAnswered(2) /\ ~RequestedTools(2) /\ ~HasText(api_calls[2].response)
    /\ Len(QueryState.errors_encountered) > 0
    /\ outcome = "returned"

\* C6 as stated: a failure returns the 'gathered partial information'
\* message when a round had started and the 'technical issue' message
\* otherwise, the same two texts wherever the failure was caught.
C6_TwoFixedMessages ==
    (pc = "done" /\ handler # "none") =>
        result = IF QueryState.round_number > 0
                 THEN PartialAnalysisMessage ELSE TechnicalIssueQueryMessage

\* C6 as amended: the text is fixed per handler. A failure caught at the
\* query boundary returns PartialAnalysisMessage when a round had started
\* and TechnicalIssueQueryMessage otherwise; a failure of the synthesis call
\* returns PartialResponseMessage when a round had started and
\* TechnicalIssueMessage otherwise.
C6_FailureMessages ==
    (pc = "done" /\ handler # "none") =>
        /\ handler \in {"query_boundary", "final_round"}
        /\ handler = "query_boundary" =>
               result = IF QueryState.round_number > 0
                        THEN PartialAnalysisMessage
                        ELSE TechnicalIssueQueryMessage
        /\ handler = "final_round" =>
               result = IF QueryState.round_number > 0
                        THEN PartialResponseMessage
                        ELSE TechnicalIssueMessage

\* One failure at the query boundary is enough to tell the mutants apart;
\* the amended case is the synthesis call failing.
C6_Witness ==
    /\ pc = "done" /\ handler = "final_round"
    /\ api_calls[Len(api_calls)].raised
    /\ result = PartialResponseMessage

FailedRoundOne ==
    \E e \in 1..Len(QueryState.errors_encountered) :
        QueryState.errors_encountered[e].round = 1

\* The history holds a tool-result turn with the failure text of error e.
HoldsFailureTurn(history, e) ==
    \E i \in 2..Len(history) :
        /\ history[i].role = "user"
        /\ \E k \in 1..Len(history[i].content) :
               history[i].content[k].content =
                   "Tool execution failed: " \o e.error

\* C7: when a tool raised in round 1, every tool request of round 1 was
\* still executed, the model call of round 2 was made with the failure turn
\* in its history, and the query returned a non-empty string.
C7_FailureIsolation ==
    (pc = "done" /\ FailedRoundOne) =>
        /\ Cardinality({c \in 1..Len(tool_calls) : tool_calls[c].round = 1})
               = ToolUseCount(api_calls[1].response.content)
        /\ Len(api_calls) >= 2
        /\ api_calls[2].round = 2
        /\ \A e \in 1..Len(QueryState.errors_encountered) :
               QueryState.errors_encountered[e].round = 1 =>
                   HoldsFailureTurn(api_calls[2].params.messages,
                                    QueryState.errors_encountered[e])
        /\ outcome = "returned"
        /\ Len(result) > 0

\* The first of two requests of round 1 raised, the second returned, and
\* round 2 answered.
C7_Witness ==
    /\ pc = "done" /\ FailedRoundOne
    /\ Len(tool_calls) >= 2
    /\ tool_calls[1].round = 1 /\ tool_calls[1].raised
    /\ tool_calls[2].round = 1 /\ ~tool_calls[2].raised
    /\ result = AnswerText(2)

\* The step is a tool invocation that raised.
ToolRaisedStep ==
    /\ Len(tool_calls') = Len(tool_calls) + 1
    /\ tool_calls'[Len(tool_calls')].raised

\* C8: a tool invocation that raises adds exactly one record, with
\* success = FALSE, to the bucket of the current round, appends exactly one
\* error record with the round number and the exception's message, and
\* hands the model "Tool execution failed: <message>" for that request.
C8_ToolFailureRecorded ==
    [][ToolRaisedStep =>
          LET call == tool_calls'[Len(tool_calls')]
              before == message_chain.round_state
              after == message_chain'.round_state
              r == before.round_number
          IN  /\ call.round = r
              /\ Len(after.tools_per_round) = Len(before.tools_per_round)
              /\ \A b \in 1..Len(before.tools_per_round) :
                     b # r => after.tools_per_round[b] = before.tools_per_round[b]
              /\ after.tools_per_round[r] =
                     Append(before.tools_per_round[r],
                            [tool |-> call.name,
                             result_length |-> Len(call.value),
                             success |-> FALSE])
              /\ after.total_tools_executed = before.total_tools_executed + 1
              /\ after.errors_encountered =
                     Append(before.errors_encountered,
                            [round |-> r, error |-> call.value])
              /\ tool_results' =
                     Append(tool_results,
                            ToolResult(call.id,
                                "Tool execution failed: " \o call.value))
      ]_vars

\* A tool raised in round 2, after a call of round 1 that returned.
C8_Witness ==
    /\ Len(tool_calls) >= 2
    /\ ~tool_calls[1].raised /\ tool_calls[1].round = 1
    /\ tool_calls[Len(tool_calls)].raised
    /\ tool_calls[Len(tool_calls)].round = 2
    /\ Len(QueryState.errors_encountered) = 1

\* C9: round_number never decreases and never exceeds max_rounds.
C9_RoundNumberBounded ==
    /\ [](QueryState.round_number <= max_rounds)
    /\ [][message_chain'.round_state.round_number
              >= message_chain.round_state.round_number]_vars

\* The model requested tools in both rounds and the budget is used up.
C9_Witness ==
    /\ RequestedTools(1) /\ RequestedTools(2)
    /\ pc = "final"
    /\ QueryState.round_number = max_rounds

RECURSIVE SumOfSizes(_)
SumOfSizes(buckets) ==
    IF Len(buckets) = 0 THEN 0
    ELSE Len(buckets[1]) + SumOfSizes(Tail(buckets))

\* C10: total_tools_executed is the sum of the sizes of the buckets of
\* tools_per_round, after any sequence of advance_round and
\* add_tool_execution.
C10_TotalIsSumOfBuckets ==
    round_state.total_tools_executed = SumOfSizes(round_state.tools_per_round)

\* Tools were recorded before the first advance_round and after it, some of
\* them failed.
C10_Witness ==
    /\ Len(round_state.tools_per_round) >= 2
    /\ Len(round_state.tools_per_round[1]) >= 1
    /\ Len(round_state.tools_per_round[2]) >= 1
    /\ round_state.round_number = 1
    /\ \E i \in 1..Len(round_state.tools_per_round[2]) :
           ~round_state.tools_per_round[2][i].success

\* The identity of a source: (course_title, lesson_number)
Identity(s) == <<s.course_title, s.lesson_number>>

\* C11: after any sequence of add_sources calls, batches with the same
\* source twice included, no two entries of sources_accumulated have the
\* same (course_title, lesson_number).
C11_SourceIdentityUnique ==
    \A i, j \in 1..Len(round_state.sources_accumulated) :
        i # j => Identity(round_state.sources_accumulated[i])
                     # Identity(round_state.sources_accumulated[j])

\* The last batch held the same identity twice (under two links), after
\* other sources had been accumulated.
C11_Witness ==
    /\ Len(round_sources) = 2
    /\ Identity(round_sources[1]) = Identity(round_sources[2])
    /\ round_sources[1] # round_sources[2]
    /\ Len(round_state.sources_accumulated) >= 2

\* The positions of the batch that hold the first occurrence of an identity
\* not accumulated before, in batch order.
FirstDiscoveries(old, batch) ==
    SelectSeq([k \in 1..Len(batch) |-> k],
              LAMBDA k :
                  /\ \A i \in 1..Len(old) : Identity(old[i]) # Identity(batch[k])
                  /\ \A m \in 1..(k - 1) : Identity(batch[m]) # Identity(batch[k]))

\* C12: every add_sources leaves the entries stored before it unchanged and
\* in place, and appends, in batch order, one entry per identity that was
\* not stored before, equal to its first occurrence in the batch and tagged
\* with the round of the call: an identity surfaced in two rounds has one
\* entry, tagged with the earlier round.
C12_FirstDiscoveryWins ==
    [][LET old == round_state.sources_accumulated
           new == round_state'.sources_accumulated
           batch == round_sources'
           fresh == FirstDiscoveries(old, batch)
       IN  /\ Len(new) = Len(old) + Len(fresh)
           /\ SubSeq(new, 1, Len(old)) = old
           /\ \A n \in 1..Len(fresh) :
                  new[Len(old) + n] =
                      ("discovered_in_round" :> round_num') @@ batch[fresh[n]]
      ]_vars

\* Lesson 1 of "A" was stored in round 1 and surfaced again in round 2,
\* under the other link, together with a source that is new in round 2.
C12_Witness ==
    /\ round_num = 2
    /\ Len(round_state.sources_accumulated) >= 2
    /\ round_state.sources_accumulated[1].discovered_in_round = 1
    /\ round_state.sources_accumulated[1].lesson_link = None
    /\ \E k \in 1..Len(round_sources) :
           /\ Identity(round_sources[k])
                  = Identity(round_state.sources_accumulated[1])
           /\ round_sources[k].lesson_link # None
    /\ \E i \in 2..Len(round_state.sources_accumulated) :
           round_state.sources_accumulated[i].discovered_in_round = 2

\* What generate_response_sequential hands to its caller: one string.
ReturnValue == <<result>>

\* The source list carried by a return value, none when it is the text alone.
SourcesOf(value) == IF Len(value) >= 2 THEN value[2] ELSE <<>>

\* C13: a query that returns hands its caller the answer text together
\* with the ordered source list accumulated and deduplicated across its
\* rounds.
C13_ReturnsTextAndSources ==
    (pc = "done" /\ outcome = "returned") =>
        /\ ReturnValue[1] = result
        /\ SourcesOf(ReturnValue) = get_accumulated_sources(message_chain)

\* The text a search that found Matches returns.
FoundText ==
    CourseSearchTool_execute(CourseSearchTool(SearchName),
                             ToolRequest(SearchName),
                             SearchResultsOf(Matches)).value

FoundInThisQuery ==
    \E c \in 1..Len(tool_calls) :
        /\ tool_calls[c].name = SearchName
        /\ ~tool_calls[c].raised
        /\ tool_calls[c].value = FoundText

ResultTurns ==
    {i \in 1..Len(Messages) :
        Messages[i].role = "user" /\ i > 1}

\* The tool_result block is among the results of the running round or in a
\* tool-result turn of the chain.
HandedToModel(block) ==
    \/ pc = "tools" /\ \E k \in 1..Len(tool_results) : tool_results[k] = block
    \/ \E i \in ResultTurns :
           \E k \in 1..Len(Messages[i].content) : Messages[i].content[k] = block

\* C15: a request for a name that is not registered does not raise: the
\* call returns "Tool '<name>' not found", that string is the tool_result
\* content for the request, the round records a successful execution and
\* no error, and the round proceeds to the next model call.
C15_UnknownToolSoftFailure ==
    /\ Len(QueryState.errors_encountered)
           = Cardinality({c \in 1..Len(tool_calls) : tool_calls[c].raised})
    /\ \A c \in 1..Len(tool_calls) :
           IndexOf(tool_manager, tool_calls[c].name) = 0 =>
               /\ ~tool_calls[c].raised
               /\ tool_calls[c].value
                      = "Tool '" \o tool_calls[c].name \o "' not found"
               /\ HandedToModel(ToolResult(tool_calls[c].id, tool_calls[c].value))
               /\ \E k \in 1..Len(QueryState.tools_per_round[tool_calls[c].round]) :
                      QueryState.tools_per_round[tool_calls[c].round][k]
                          = [tool |-> tool_calls[c].name,
                             result_length |-> Len(tool_calls[c].value),
                             success |-> TRUE]
               /\ pc = "done" => Len(api_calls) > tool_calls[c].round

\* Round 1 asked for an unregistered tool alone, and round 2 answered.
C15_Witness ==
    /\ pc = "done"
    /\ Len(tool_calls) = 1
    /\ tool_calls[1].name = UnknownName
    /\ tool_calls[1].value = "Tool 'unknown_tool' not found"
    /\ Len(QueryState.errors_encountered) = 0
    /\ Len(api_calls) = 2
    /\ result = AnswerText(2)

\* C16: register_tool of a tool whose definition declares no name (no
\* "name" entry, or an empty one) raises, and the registry is what it was
\* before the call.
C16_NamelessToolRejected ==
    [][(last_call'.op = "register_tool" /\ ~TruthyStr(last_call'.declared)) =>
           /\ last_call'.raised
           /\ last_call'.value = "Tool must have a 'name' in its definition"
           /\ tool_manager' = tool_manager
      ]_vars

\* A nameless tool was refused by a registry that holds two tools.
C16_Witness ==
    /\ last_call.op = "register_tool"
    /\ last_call.declared = None
    /\ last_call.raised
    /\ Len(tool_manager.tools) = 2

\* C17: register_tool of a tool whose name is already registered raises,
\* and the tool registered before stays in the registry as it was.
C17_DuplicateNameRejected ==
    [][(/\ last_call'.op = "register_tool"
        /\ TruthyStr(last_call'.declared)
        /\ IndexOf(tool_manager, last_call'.declared[1]) # 0) =>
           /\ last_call'.raised
           /\ tool_manager' = tool_manager
      ]_vars

\* The call was an execute_tool that stored a source list in the named
\* source-tracking tool.
Populated(call) ==
    /\ call.op = "execute_tool"
    /\ ~call.raised
    /\ call.store.kind = "results"
    /\ ~call.store.link_raises
    /\ IndexOf(tool_manager, call.name) # 0
    /\ HasLastSources(tool_manager.tools[IndexOf(tool_manager, call.name)])

\* C18: right after a call populated a tool's source list, get_last_sources
\* returns that list, wherever the tool stands in the registry and whatever
\* other source-tracking tools were executed before.
C18_MostRecentSources ==
    Populated(last_call) =>
        get_last_sources(tool_manager)
            = tool_manager.tools[IndexOf(tool_manager, last_call.name)].last_sources

C20_NoSourcesWithoutMatches ==
    /\ (/\ Len(tool_calls) > 0
        /\ tool_calls[Len(tool_calls)].name = SearchName
        /\ tool_calls[Len(tool_calls)].store \in {"error", "empty"}) =>
           tool_manager.tools[IndexOf(tool_manager, SearchName)].last_sources
               = <<>>
    /\ Len(QueryState.sources_accumulated) > 0 => FoundInThisQuery

\* C21: when the search finds no match, the returned message is "No
\* relevant content found", then " in course '<name>'" if a course filter
\* was supplied, then " in lesson <n>" if a lesson filter was supplied
\* (lesson 0 included), then ".".
C21_EmptyMessageNamesFilters ==
    LET i == IndexOf(tool_manager, last_call.name)
        k == last_call.kwargs
    IN  (/\ last_call.op = "execute_tool"
         /\ i # 0
         /\ tool_manager.tools[i].kind = "search"
         /\ Binds(tool_manager.tools[i], k)
         /\ last_call.store.kind = "empty") =>
            /\ ~last_call.raised
            /\ last_call.value
                 = "No relevant content found"
                     \o (IF k.course_name # None
                         THEN " in course '" \o k.course_name[1] \o "'"
                         ELSE "")
                     \o (IF k.lesson_number # None
                         THEN " in lesson " \o ToString(k.lesson_number[1])
                         ELSE "")
                     \o "."

\* C22: after a search that found matches and formatted them, the tool's
\* last_sources is exactly one entry per match in match order, whatever it
\* held before: the title is the match's course title or 'unknown', the
\* lesson number the match's or None, and the link is the looked-up link
\* when the match has a lesson number and None (no lookup) when it has none.
C22_SourcesReplaced ==
    LET i == IndexOf(tool_manager, last_call.name)
        m == last_call.store.matches
    IN  (/\ last_call.op = "execute_tool"
         /\ i # 0
         /\ tool_manager.tools[i].kind = "search"
         /\ Binds(tool_manager.tools[i], last_call.kwargs)
         /\ last_call.store.kind = "results"
         /\ \/ ~last_call.store.link_raises
            \/ \A j \in 1..Len(m) : m[j].meta.lesson_number = None) =>
            /\ Len(tool_manager.tools[i].last_sources) = Len(m)
            /\ \A j \in 1..Len(m) :
                  LET e == tool_manager.tools[i].last_sources[j]
                  IN  /\ e.course_title
                           = IF m[j].meta.course_title = None THEN "unknown"
                             ELSE m[j].meta.course_title[1]
                      /\ e.lesson_number = m[j].meta.lesson_number
                      /\ e.lesson_link
                           = IF m[j].meta.lesson_number = None THEN None
                             ELSE last_call.store.link

\* A search whose only match has no metadata succeeded although a link
\* lookup would have raised: the buffer holds the one entry 'unknown'.
C22_Witness ==
    /\ last_call.op = "execute_tool"
    /\ last_call.name = SearchName
    /\ last_call.store.kind = "results"
    /\ last_call.store.link_raises
    /\ last_call.store.matches = Malformed
    /\ ~last_call.raised
    /\ IndexOf(tool_manager, SearchName) # 0
    /\ tool_manager.tools[IndexOf(tool_manager, SearchName)].last_sources
         = <<[course_title |-> "unknown", lesson_number |-> None,
              lesson_link |-> None]>>

\* C23: a call of execute_tool that runs the outline tool, whether the
\* course is resolved, not resolved, missing from the metadata or the store
\* raises, leaves the value of get_last_sources as it was before the call.
C23_OutlineLeavesSources ==
    [][ LET i == IndexOf(tool_manager, last_call'.name)
        IN  (/\ last_call'.op = "execute_tool"
             /\ i # 0
             /\ tool_manager.tools[i].kind = "outline") =>
                get_last_sources(tool_manager')
                    = get_last_sources(tool_manager)
      ]_vars

\* The outline tool resolved its course and returned the outline while a
\* search tool held sources.
C23_Witness ==
    /\ last_call.op = "execute_tool"
    /\ last_call.name = OutlineName
    /\ last_call.store.kind = "outline"
    /\ ~last_call.raised
    /\ IndexOf(tool_manager, OutlineName) # 0
    /\ tool_manager.tools[IndexOf(tool_manager, OutlineName)].kind = "outline"
    /\ Len(get_last_sources(tool_manager)) > 0

\* The tool_use blocks of a response's content, in order
ToolUseBlocks(content) == SelectSeq(content, LAMBDA b : b.type = "tool_use")

\* C24: when generate_response has ended and its first response asked for
\* tools, every tool_use block was executed once, in order, with the name
\* and arguments of the block; one follow-up call was made, without tools,
\* on the history [user query, assistant turn, one user turn of the tool
\* results]; and the text of the follow-up response was returned. When the
\* first response did not ask for tools there was one model call and no
\* tool call.
C24_SingleRoundFlow ==
    (pc = "done" /\ CallAnswered(1)) =>
        LET first == api_calls[1].response
            asked == ToolUseBlocks(first.content)
        IN  /\ (first.stop_reason = "tool_use" /\ Len(asked) > 0) =>
                  /\ Len(tool_calls) = Len(asked)
                  /\ \A k \in 1..Len(asked) :
                        /\ tool_calls[k].id = asked[k].id
                        /\ tool_calls[k].name = asked[k].name
                        /\ tool_calls[k].input = asked[k].input
                  /\ Len(api_calls) = 2
                  /\ api_calls[2].params.tools = <<>>
                  /\ api_calls[2].params.messages
                       = << [role |-> "user", content |-> Query],
                            [role |-> "assistant", content |-> first.content],
                            [role |-> "user",
                             content |-> [k \in 1..Len(asked) |->
                                            ToolResult(asked[k].id,
                                                       tool_calls[k].value)]] >>
                  /\ (CallAnswered(2) /\ HasText(api_calls[2].response)) =>
                        /\ outcome = "returned"
                        /\ result = api_calls[2].response.content[1].text
            /\ first.stop_reason # "tool_use" =>
                  /\ Len(api_calls) = 1
                  /\ Len(tool_calls) = 0

\* The same flow holds of the executions in which no tool call raised.
SingleRoundFlowWithoutToolFailure ==
    (\A k \in 1..Len(tool_calls) : ~tool_calls[k].raised) => C24_SingleRoundFlow

\* C25: when generate_response has ended, every tool call that raised was
\* answered to the model: the follow-up call was made and its tool-result
\* turn holds, under the id of the request, "Tool execution failed: "
\* followed by the exception's message.
C25_SingleRoundToolFailure ==
    pc = "done" =>
        \A k \in 1..Len(tool_calls) :
            tool_calls[k].raised =>
                /\ Len(api_calls) = 2
                /\ Len(api_calls[2].params.messages) = 3
                /\ \E j \in 1..Len(api_calls[2].params.messages[3].content) :
                      api_calls[2].params.messages[3].content[j]
                          = ToolResult(tool_calls[k].id,
                                       "Tool execution failed: "
                                           \o tool_calls[k].value)

\* C27: when a model call of generate_response raised, the first call or
\* the follow-up call, generate_response ended by raising that exception;
\* no message was returned in its place.
C27_ModelFailurePropagates ==
    (pc = "done" /\ \E k \in 1..Len(api_calls) : api_calls[k].raised) =>
        /\ outcome = "raised"
        /\ result = "API error"
        /\ handler = "none"

\* The tools ran and the follow-up call raised.
C27_Witness ==
    /\ pc = "done"
    /\ Len(api_calls) = 2
    /\ ~api_calls[1].raised
    /\ api_calls[2].raised
    /\ Len(tool_calls) > 0
    /\ outcome = "raised"

\* C26: for a run of generate_response without failure, the sequential
\* protocol with a budget of one round, given the same first response and
\* the same store outcomes, sends the same first request (the tools
\* offered), runs the same tools in the same order, ends its rounds, and
\* sends the same follow-up request (the same history, no tools).
C26_SingleIsOneRoundCase ==
    (/\ pc = "done"
     /\ outcome = "returned"
     /\ \A k \in 1..Len(api_calls) : ~api_calls[k].raised
     /\ \A k \in 1..Len(tool_calls) : ~tool_calls[k].raised) =>
        LET seq == sequential_first_round(1, tools, api_calls[1].response,
                                          tool_calls)
        IN  /\ api_calls[1].params = seq.first
            /\ Len(api_calls) = 2 =>
                  /\ Len(seq.executed) = Len(tool_calls)
                  /\ \A k \in 1..Len(tool_calls) :
                        seq.executed[k].tool = tool_calls[k].name
                  /\ ~seq.another_round
                  /\ api_calls[2].params = seq.next

\* Apart from the tools offered with the first request, the two modes
\* agree.
OneRoundCaseApartFromFirstOffer ==
    (/\ pc = "done"
     /\ outcome = "returned"
     /\ \A k \in 1..Len(api_calls) : ~api_calls[k].raised
     /\ \A k \in 1..Len(tool_calls) : ~tool_calls[k].raised) =>
        LET seq == sequential_first_round(1, tools, api_calls[1].response,
                                          tool_calls)
        IN  /\ api_calls[1].params.messages = seq.first.messages
            /\ api_calls[1].params.system = seq.first.system
            /\ Len(api_calls) = 2 =>
                  /\ Len(seq.executed) = Len(tool_calls)
                  /\ \A k \in 1..Len(tool_calls) :
                        seq.executed[k].tool = tool_calls[k].name
                  /\ ~seq.another_round
                  /\ api_calls[2].params = seq.next

\* C29: while a round's tools run, the tool results collected so far are
\* those of the tool_use blocks processed so far, in the order of the
\* blocks, the i-th result under the id of the i-th tool_use block; and
\* every tool-result turn of the chain lists, in that order, the ids of the
\* tool_use blocks of the assistant turn before it. Calls that returned
\* and calls that raised are treated alike.
C29_ResultsInRequestOrder ==
    /\ pc = "tools" =>
          LET asked == ToolUseBlocks(SubSeq(response.content, 1, blk - 1))
          IN  /\ Len(tool_results) = Len(asked)
              /\ \A i \in 1..Len(asked) :
                    tool_results[i].tool_use_id = asked[i].id
    /\ \A j \in 1..Len(Messages) :
          (Messages[j].role = "assistant"
              /\ ToolUseCount(Messages[j].content) > 0) =>
             LET asked == ToolUseBlocks(Messages[j].content)
             IN  /\ j < Len(Messages)
                 /\ Len(Messages[j + 1].content) = Len(asked)
                 /\ \A i \in 1..Len(asked) :
                       Messages[j + 1].content[i].tool_use_id = asked[i].id

\* A recorded round of two requests: the first call returned, the second
\* raised, and the turn lists them in that order.
C29_Witness ==
    /\ Len(Messages) >= 3
    /\ Messages[2].role = "assistant"
    /\ ToolUseCount(Messages[2].content) = 2
    /\ Len(tool_calls) >= 2
    /\ ~tool_calls[1].raised
    /\ tool_calls[2].raised
    /\ tool_calls[2].round = 1
    /\ Messages[3].content[2].content
         = "Tool execution failed: " \o tool_calls[2].value

\* C30: total_tools_executed is the number of tool_use requests processed
\* so far, also when reading the result's length or pulling the last
\* sources failed after the tool had returned.
C30_OneRecordPerAttempt ==
    /\ QueryState.total_tools_executed = Len(tool_calls)
    /\ SumOfSizes(QueryState.tools_per_round) = Len(tool_calls)

\* With ToolManager and its tools no step after a tool's return fails, and
\* the count is exact.
OneRecordPerAttemptWithToolManager ==
    QueryState.total_tools_executed = Len(tool_calls)

\* C28: a step taken by one of two interleaved queries leaves the other
\* query's chain as it was: its message log, its round_number and tool
\* count, its tool records, its error records and its accumulated sources.
C28_QueryStatePrivate ==
    [][ \A p \in InFlight :
            p # turn' =>
                /\ ChainOf(heap', inflight'[p]) = ChainOf(heap, inflight[p])
                /\ inflight'[p] = inflight[p]
      ]_vars

\* Both queries hold tool records of their own, query 1 an error record
\* and query 2 sources, and query 2 took the latest step.
C28_Witness ==
    /\ turn = 2
    /\ inflight[1].total_tools_executed > 0
    /\ inflight[2].total_tools_executed > 0
    /\ Len(Items(heap, inflight[1].errors_encountered)) > 0
    /\ Len(Items(heap, inflight[2].sources_accumulated)) > 0
    /\ Len(Items(heap, inflight[1].sources_accumulated)) = 0
    /\ Len(Items(heap, inflight[2].errors_encountered)) = 0

\* The tool calls made for the requests of round r, in the order made
CallsOfRound(r) == SelectSeq(tool_calls, LAMBDA c : c.round = r)

\* C31: execute_tool is called once per tool_use request: the calls made
\* for a round are, in order, the tool_use blocks of the round's response
\* processed so far (all of them once the round is over), whether the call
\* returned or raised; and every round and the synthesis have at most one
\* model call, a model call that raised being the last call of the query.
C31_NoRetries ==
    /\ \A k \in 1..Len(api_calls) :
          RequestedTools(k) /\ api_calls[k].round # 0 =>
             LET r == api_calls[k].round
                 content == api_calls[k].response.content
                 asked == IF pc = "tools" /\ round_num = r
                          THEN ToolUseBlocks(SubSeq(content, 1, blk - 1))
                          ELSE ToolUseBlocks(content)
                 made == CallsOfRound(r)
             IN  /\ Len(made) = Len(asked)
                 /\ \A i \in 1..Len(asked) :
                       /\ made[i].id = asked[i].id
                       /\ made[i].name = asked[i].name
                       /\ made[i].input = asked[i].input
    /\ \A k \in 1..Len(tool_calls) :
          \E j \in 1..Len(api_calls) :
              RequestedTools(j) /\ api_calls[j].round = tool_calls[k].round
    /\ \A j, k \in 1..Len(api_calls) :
          j < k => /\ api_calls[j].round # api_calls[k].round
                   /\ ~api_calls[j].raised

\* Two requests of round 1 were processed, the second call raised, and the
\* model call of round 2 failed.
C31_Witness ==
    /\ pc = "done"
    /\ Len(api_calls) = 2
    /\ api_calls[2].raised
    /\ Len(CallsOfRound(1)) = 2
    /\ CallsOfRound(1)[2].raised

\* The work one round can take: its model call, one step per block of the
\* response, and the step that records the round.
RoundWork == MaxBlocks + 3

\* The steps the query can still take, at most
Rank ==
    LET later == (LastRound - round_num) * RoundWork
    IN  IF pc = "done" THEN 0
        ELSE IF pc = "final" THEN 1
        ELSE IF pc = "tools"
        THEN 2 + (Len(response.content) + 1 - blk) + later
        ELSE RoundWork + later

\* The responses whose tool requests were executed
ToolRounds == {tool_calls[k].round : k \in 1..Len(tool_calls)}

\* C32: every step of generate_response_sequential strictly lowers a
\* non-negative count of the steps left, so every execution ends; at any
\* point at most max_rounds + 1 = 3 model calls were made and tools were
\* executed for at most max_rounds = 2 responses, whatever the model
\* answers, a model that asks for tools on every call included.
C32_Terminates ==
    [][/\ Rank' < Rank
       /\ Rank' >= 0
       /\ Len(api_calls') <= max_rounds + 1
       /\ Cardinality(ToolRounds') <= max_rounds
       /\ ToolRounds' \subseteq FirstRound..LastRound]_vars

\* The model asked for tools on each of its three calls, and the query
\* returned after the third.
C32_Witness ==
    /\ pc = "done"
    /\ outcome = "returned"
    /\ Len(api_calls) = 3
    /\ \A k \in 1..3 : RequestedTools(k)
    /\ Cardinality(ToolRounds) = 2

\* The model calls made by the rounds (the synthesis call has round 0)
RoundCalls == {k \in 1..Len(api_calls) : api_calls[k].round # 0}

\* C37: round_number counts the rounds whose model call was made, the one
\* in progress included, so it is at least 1 when any failure is handled:
\* a handled failure returns one of the two 'gathered some information'
\* texts, and no execution returns either 'technical issue' text.
C37_NoTechnicalIssueMessage ==
    /\ QueryState.round_number = Cardinality(RoundCalls)
    /\ handler # "none" =>
          /\ QueryState.round_number > 0
          /\ result \in {PartialAnalysisMessage, PartialResponseMessage}
    /\ result \notin {TechnicalIssueQueryMessage, TechnicalIssueMessage}

\* The very first model call failed, before any tool had run.
C37_Witness ==
    /\ pc = "done"
    /\ handler = "query_boundary"
    /\ Len(api_calls) = 1 /\ api_calls[1].raised
    /\ tool_calls = <<>>
    /\ result = PartialAnalysisMessage

IsPrefix(a, b) == Len(a) <= Len(b) /\ SubSeq(b, 1, Len(a)) = a

\* The message history handed to the k-th model call
HistoryOf(calls, k) == calls[k].params.messages

\* Every step keeps what the three logs of the query already hold.
LogsOnlyGrow ==
    [][/\ IsPrefix(Messages, Messages')
       /\ IsPrefix(QueryState.errors_encountered,
                   QueryState'.errors_encountered)
       /\ IsPrefix(QueryState.sources_accumulated,
                   QueryState'.sources_accumulated)
       /\ \A k \in 2..Len(api_calls') :
             IsPrefix(HistoryOf(api_calls', k - 1), HistoryOf(api_calls', k))
      ]_vars

\* C33: every step leaves the existing prefix of the message list, of the
\* error records and of the accumulated sources unchanged; the history of
\* each model call extends the history of the call before it, and is
\* longer by exactly two turns, the assistant tool-use turn and then the
\* user tool-result turn of the round between the two calls.
C33_AppendOnlyLogs ==
    [][/\ IsPrefix(Messages, Messages')
       /\ IsPrefix(QueryState.errors_encountered,
                   QueryState'.errors_encountered)
       /\ IsPrefix(QueryState.sources_accumulated,
                   QueryState'.sources_accumulated)
       /\ \A k \in 2..Len(api_calls') :
             LET before == HistoryOf(api_calls', k - 1)
                 now == HistoryOf(api_calls', k)
             IN  /\ IsPrefix(before, now)
                 /\ Len(now) = Len(before) + 2
                 /\ now[Len(before) + 1].role = "assistant"
                 /\ now[Len(before) + 2].role = "user"
      ]_vars

Alternates(history) ==
    /\ Len(history) > 0
    /\ \A i \in 1..Len(history) :
          history[i].role = IF i % 2 = 1 THEN "user" ELSE "assistant"
    /\ history[Len(history)].role = "user"

\* C34: the history handed to every model call starts with a user turn,
\* strictly alternates user and assistant turns and ends with a user turn,
\* whatever the model answered before, a tool_use stop reason without any
\* tool_use block included.
C34_HistoryAlternates ==
    \A k \in 1..Len(api_calls) : Alternates(HistoryOf(api_calls, k))

\* The same for the calls that follow rounds with at least one tool_use
\* block in every response.
HistoryAlternatesAfterToolUse ==
    (\A k \in 1..Len(api_calls) :
        RequestedTools(k) /\ api_calls[k].round # 0 =>
            ToolUseCount(api_calls[k].response.content) > 0)
    => \A k \in 1..Len(api_calls) : Alternates(HistoryOf(api_calls, k))

Buckets == round_state.tools_per_round

\* The buckets beyond round_number
ExtraBuckets == Len(Buckets) - round_state.round_number

\* C38 as stated: after any sequence of advance_round and
\* add_tool_execution the number of buckets of tools_per_round equals
\* round_number.
C38_BucketsEqualRoundNumber == Len(Buckets) = round_state.round_number

\* C38 as amended: the number of buckets is round_number, or
\* round_number + 1 once add_tool_execution has run on a RoundState
\* without buckets (before the first advance_round) - the only step that
\* changes the difference; every tool record is appended to the last
\* bucket, the other buckets being left as they were.
C38_RecordLandsInLastBucket ==
    [][/\ ExtraBuckets' \in {0, 1}
       /\ ExtraBuckets' # ExtraBuckets =>
             /\ Len(Buckets) = 0 /\ round_state.round_number = 0
             /\ round_state'.total_tools_executed = 1
             /\ ExtraBuckets' = 1
       /\ round_state'.total_tools_executed # round_state.total_tools_executed
             => LET last == Len(Buckets')
                    old == IF Len(Buckets) = last THEN Buckets[last] ELSE <<>>
                IN  /\ last >= 1
                    /\ last = IF Len(Buckets) = 0 THEN 1 ELSE Len(Buckets)
                    /\ Len(Buckets'[last]) = Len(old) + 1
                    /\ SubSeq(Buckets'[last], 1, Len(old)) = old
                    /\ \A i \in 1..(last - 1) : Buckets'[i] = Buckets[i]
       /\ round_state'.round_number # round_state.round_number
             => /\ Len(Buckets') = Len(Buckets) + 1
                /\ Buckets'[Len(Buckets')] = <<>>
      ]_vars

\* A tool was recorded before the first advance_round and another in
\* round 2: three buckets, the record of round 2 in the last one.
C38_Witness ==
    /\ round_state.round_number = 2
    /\ Len(Buckets) = 3
    /\ Len(Buckets[1]) = 1 /\ Len(Buckets[2]) = 0 /\ Len(Buckets[3]) = 1

\* The (course_title, lesson_number) pair of a source dict; the second
\* part tells a missing lesson_number from one that is None.
IdentityPair(s) ==
    <<s.course_title,
      IF "lesson_number" \in DOMAIN s
      THEN <<"present", s.lesson_number>>
      ELSE <<"absent", None>> >>

\* C35: add_sources never drops a source as a duplicate of a source with a
\* different (course_title, lesson_number) pair: after each call every
\* source of the batch has an accumulated entry with its own pair, and the
\* accumulated entries keep pairwise different pairs, for lesson numbers
\* that are integers, None or absent and titles that contain '_'.
C35_DistinctSourcesKept ==
    LET acc == round_state.sources_accumulated
    IN  /\ \A k \in 1..Len(round_sources) :
              \E i \in 1..Len(acc) :
                  IdentityPair(acc[i]) = IdentityPair(round_sources[k])
        /\ \A i, j \in 1..Len(acc) :
              i # j => IdentityPair(acc[i]) # IdentityPair(acc[j])

\* All the sources of the pool were accumulated, none taken for another.
C35_Witness ==
    /\ pc = "dedup"
    /\ Len(round_state.sources_accumulated) = Cardinality(DistinctPool)

\* The messages of the exceptions the store raises
ExceptionMessages == {StoreRaises.error}

\* The content starts with "Tool execution failed:"
ReportsFailure(content) ==
    \E m \in ExceptionMessages : content = "Tool execution failed: " \o m

\* The tool records and the error records of the round in progress
RoundBucket ==
    IF QueryState.round_number = 0 THEN <<>>
    ELSE QueryState.tools_per_round[QueryState.round_number]

RoundErrors ==
    SelectSeq(QueryState.errors_encountered,
              LAMBDA e : e.round = QueryState.round_number)

FailureResults ==
    {i \in 1..Len(tool_results) : ReportsFailure(tool_results[i].content)}

\* C36: while a round executes its tools, every tool request whose
\* tool_result content starts with "Tool execution failed:" has its tool
\* record with success = FALSE and an error record of that round, one per
\* such request, also when the store raised inside the search tool.
C36_FailureReportingConsistent ==
    pc = "tools" =>
    /\ Len(RoundBucket) = Len(tool_results)
    /\ \A i \in FailureResults : ~RoundBucket[i].success
    /\ Len(RoundErrors) = Cardinality(FailureResults)

\* The sources query q holds: pulled in the round in progress, or
\* accumulated
SourcesHeldBy(q) ==
    LET acc == Items(heap, inflight[q].sources_accumulated)
    IN  {inflight[q].round_sources[i] :
            i \in 1..Len(inflight[q].round_sources)}
        \cup {[course_title |-> acc[i].course_title,
               lesson_number |-> acc[i].lesson_number,
               lesson_link |-> acc[i].lesson_link] : i \in 1..Len(acc)}

\* The sources the searches of query q write
SourcesWrittenBy(q) ==
    {SourceData(MatchesOf(q)[i].meta, SearchResultsOf(MatchesOf(q))) :
        i \in 1..Len(MatchesOf(q))}

\* C39: with two queries interleaved on one ToolManager, the sources a
\* query pulls after its own tool call, and so the sources it accumulates,
\* are the ones its own calls wrote, never the ones written by a call of
\* the other query that ran between its execute_tool and its
\* get_last_sources.
C39_PulledSourcesAreOwn ==
    \A q \in InFlight : SourcesHeldBy(q) \subseteq SourcesWrittenBy(q)

====
